---- MODULE Spec2Model ----
(***************************************************************************)
(* Verification model of the software-cpu repository: the two-pass         *)
(* assembler (src/src/assembler/assembler.cpp and the earlier scratch      *)
(* assembler kept in src/unnamed/part_002), the command-line driver and    *)
(* the emulator test of src/src/main.cpp, and the fetch-decode-execute     *)
(* rule of docs/architecture/microarchitecture.md.                         *)
(*                                                                         *)
(* A source text is a sequence of lines; a line is a sequence of           *)
(* one-character strings.  An exception is modelled by a non-empty `err`   *)
(* field holding the message the code throws.                              *)
(***************************************************************************)
EXTENDS Integers, Sequences, FiniteSets, TLC

VARIABLES
    impl,     \* which translation unit provides assemble(): "cpp" | "part2"
    source,   \* the source text handed to the tool
    ctx,      \* the AsmContext storage as the most recent assemble call left it
    ret,      \* outcome of the most recent assemble(source) call; n counts them
    first,    \* outcome of the first assemble(source) call (history)
    calls,    \* number of assemble calls made so far
    tool,     \* command-line driver: exit status and output file
    cpu,      \* emulator state
    enc,      \* instruction-word encoder inputs and outputs
    viewer    \* trace viewer page: globals of viewer.js, slider and pending callbacks

vars == <<impl, source, ctx, ret, first, calls, tool, cpu, enc, viewer>>

----------------------------------------------------------------------------
(* Bounds *)

MaxLines  == 3     \* lines per source text
MaxCalls  == 3     \* assemble calls per behaviour
MaxCycles == 5     \* the emulator's maximum-cycle guard
MaxInstr  == 3     \* instructions per hand-encoded program
MaxTrace  == 3     \* entries of a trace the viewer loads
MaxFrames == 2     \* animation-frame callbacks pending at once
MaxFetch  == 2     \* trace fetches in flight at once

----------------------------------------------------------------------------
(* Characters *)

LowerSeq == <<"a","b","c","d","e","f","g","h","i","j","k","l","m",
              "n","o","p","q","r","s","t","u","v","w","x","y","z">>
UpperSeq == <<"A","B","C","D","E","F","G","H","I","J","K","L","M",
              "N","O","P","Q","R","S","T","U","V","W","X","Y","Z">>
DigitSeq == <<"0","1","2","3","4","5","6","7","8","9">>

SeqRange(s) == {s[i] : i \in DOMAIN s}
IndexOf(s, c) == CHOOSE i \in DOMAIN s : s[i] = c

Digits == SeqRange(DigitSeq)
Lowers == SeqRange(LowerSeq)
Uppers == SeqRange(UpperSeq)
Spaces == {" ", "\t", "\r", "\n"}
UpperOf == [c \in Lowers |-> UpperSeq[IndexOf(LowerSeq, c)]]

isdigit(c) == c \in Digits
isalpha(c) == c \in Lowers \/ c \in Uppers
isalnum(c) == isdigit(c) \/ isalpha(c)
isspace(c) == c \in Spaces
toupper(c) == IF c \in Lowers THEN UpperOf[c] ELSE c

ToUpperStr(s) == [i \in DOMAIN s |-> toupper(s[i])]

\* Mnemonics, directives and register names as character sequences
NOP_s   == <<"N","O","P">>
HALT_s  == <<"H","A","L","T">>
ADD_s   == <<"A","D","D">>
JMP_s   == <<"J","M","P">>
JZ_s    == <<"J","Z">>
ORG_s   == <<".","O","R","G">>
WORD_s  == <<".","W","O","R","D">>
R0_s    == <<"R","0">>
R1_s    == <<"R","1">>
R2_s    == <<"R","2">>
R3_s    == <<"R","3">>

trim(s) ==
    IF \A i \in DOMAIN s : isspace(s[i]) THEN <<>>
    ELSE LET start == CHOOSE i \in DOMAIN s :
                          /\ ~isspace(s[i])
                          /\ \A j \in 1..(i-1) : isspace(s[j])
             end   == CHOOSE i \in DOMAIN s :
                          /\ ~isspace(s[i])
                          /\ \A j \in (i+1)..Len(s) : isspace(s[j])
         IN SubSeq(s, start, end)

iequals(a, b) ==
    /\ Len(a) = Len(b)
    /\ \A i \in DOMAIN a : toupper(a[i]) = toupper(b[i])

----------------------------------------------------------------------------
(* Tokenization *)

Tok(type, text) == [type |-> type, text |-> text]

\* line.substr(0, line.find(';'))
StripComment(line) ==
    IF \E i \in DOMAIN line : line[i] = ";"
    THEN LET p == CHOOSE i \in DOMAIN line :
                      line[i] = ";" /\ \A j \in 1..(i-1) : line[j] # ";"
         IN SubSeq(line, 1, p - 1)
    ELSE line

\* first index at or after i that does not continue a numeric literal
RECURSIVE NumberEnd(_, _)
NumberEnd(work, i) ==
    IF i <= Len(work) /\ (isalnum(work[i]) \/ work[i] = "x" \/ work[i] = "X")
    THEN NumberEnd(work, i + 1)
    ELSE i

\* first index at or after i that does not continue an identifier;
\* dot is TRUE where '.' is an identifier character (part_002)
RECURSIVE IdentEnd(_, _, _)
IdentEnd(work, i, dot) ==
    IF i <= Len(work) /\ (isalnum(work[i]) \/ work[i] = "_" \/ (dot /\ work[i] = "."))
    THEN IdentEnd(work, i + 1, dot)
    ELSE i

IsRegName(upper) == upper \in {R0_s, R1_s, R2_s, R3_s}

RECURSIVE tokenize_from(_, _, _)
tokenize_from(work, i, tokens) ==
    IF i > Len(work) THEN [err |-> "", tokens |-> tokens]
    ELSE LET c == work[i] IN
      IF isspace(c) THEN tokenize_from(work, i + 1, tokens)
      ELSE IF c = "," THEN tokenize_from(work, i + 1, Append(tokens, Tok("Comma", <<c>>)))
      ELSE IF c = ":" THEN tokenize_from(work, i + 1, Append(tokens, Tok("Colon", <<c>>)))
      ELSE IF c = "#" THEN tokenize_from(work, i + 1, Append(tokens, Tok("Hash", <<c>>)))
      ELSE IF c = "[" THEN tokenize_from(work, i + 1, Append(tokens, Tok("LBracket", <<c>>)))
      ELSE IF c = "]" THEN tokenize_from(work, i + 1, Append(tokens, Tok("RBracket", <<c>>)))
      ELSE IF c = "+" THEN tokenize_from(work, i + 1, Append(tokens, Tok("Plus", <<c>>)))
      ELSE IF isdigit(c) THEN
          LET e == NumberEnd(work, i + 1)
          IN tokenize_from(work, e, Append(tokens, Tok("Number", SubSeq(work, i, e - 1))))
      ELSE IF isalpha(c) \/ c = "_" THEN
          LET e     == IdentEnd(work, i + 1, FALSE)
              ident == SubSeq(work, i, e - 1)
              upper == ToUpperStr(ident)
          IN IF IsRegName(upper)
             THEN tokenize_from(work, e, Append(tokens, Tok("Register", upper)))
             ELSE tokenize_from(work, e, Append(tokens, Tok("Identifier", ident)))
      ELSE [err |-> "Unexpected character in source", tokens |-> tokens]

tokenize_line(line) == tokenize_from(StripComment(line), 1, <<>>)

\* part_002: no bracket or plus tokens, '.' starts and continues an
\* identifier, identifier text is upper-cased
RECURSIVE tokenize_from2(_, _, _)
tokenize_from2(work, i, tokens) ==
    IF i > Len(work) THEN [err |-> "", tokens |-> tokens]
    ELSE LET c == work[i] IN
      IF isspace(c) THEN tokenize_from2(work, i + 1, tokens)
      ELSE IF c = "," THEN tokenize_from2(work, i + 1, Append(tokens, Tok("Comma", <<c>>)))
      ELSE IF c = ":" THEN tokenize_from2(work, i + 1, Append(tokens, Tok("Colon", <<c>>)))
      ELSE IF c = "#" THEN tokenize_from2(work, i + 1, Append(tokens, Tok("Hash", <<c>>)))
      ELSE IF isdigit(c) THEN
          LET e == NumberEnd(work, i + 1)
          IN tokenize_from2(work, e, Append(tokens, Tok("Number", SubSeq(work, i, e - 1))))
      ELSE IF isalpha(c) \/ c = "_" \/ c = "." THEN
          LET e     == IdentEnd(work, i + 1, TRUE)
              upper == ToUpperStr(SubSeq(work, i, e - 1))
          IN IF IsRegName(upper)
             THEN tokenize_from2(work, e, Append(tokens, Tok("Register", upper)))
             ELSE tokenize_from2(work, e, Append(tokens, Tok("Identifier", upper)))
      ELSE [err |-> "Unexpected character in source line", tokens |-> tokens]

tokenize_line2(line) == tokenize_from2(StripComment(line), 1, <<>>)

----------------------------------------------------------------------------
(* Parsing *)

Operand(kind, text) == [kind |-> kind, text |-> text]

EmptyLine == [label |-> <<>>, kind |-> "Empty", op |-> <<>>, operands |-> <<>>]

\* the operand loop shared by parse_tokens and parse_line_tokens
RECURSIVE parse_operands(_, _, _)
parse_operands(tokens, idx, operands) ==
    IF idx > Len(tokens) THEN [err |-> "", operands |-> operands]
    ELSE LET t == tokens[idx] IN
      IF t.type = "Comma" THEN parse_operands(tokens, idx + 1, operands)
      ELSE IF t.type = "Register" THEN
          parse_operands(tokens, idx + 1, Append(operands, Operand("Reg", t.text)))
      ELSE IF t.type = "Hash" THEN
          IF idx + 1 > Len(tokens) \/ tokens[idx + 1].type # "Number"
          THEN [err |-> "Expected number after '#'", operands |-> operands]
          ELSE parse_operands(tokens, idx + 2,
                              Append(operands, Operand("Imm", tokens[idx + 1].text)))
      ELSE IF t.type = "Number" THEN
          parse_operands(tokens, idx + 1, Append(operands, Operand("RawNumber", t.text)))
      ELSE IF t.type = "Identifier" THEN
          parse_operands(tokens, idx + 1, Append(operands, Operand("LabelRef", t.text)))
      ELSE [err |-> "Unsupported operand syntax", operands |-> operands]

\* variant: a label must be followed by an instruction or a directive
parse_tokens_label_needs_op(tokens) ==
    IF tokens = <<>> THEN [err |-> "", pl |-> EmptyLine]
    ELSE
      LET hasLabel == /\ Len(tokens) >= 2
                      /\ tokens[1].type = "Identifier"
                      /\ tokens[2].type = "Colon"
          label    == IF hasLabel THEN tokens[1].text ELSE <<>>
          idx      == IF hasLabel THEN 3 ELSE 1
      IN IF idx > Len(tokens)
         THEN [err |-> "Expected instruction or directive", pl |-> EmptyLine]
         ELSE IF tokens[idx].type # "Identifier"
         THEN [err |-> "Expected instruction or directive", pl |-> EmptyLine]
         ELSE
           LET op   == tokens[idx].text
               kind == IF op # <<>> /\ op[1] = "." THEN "Directive" ELSE "Instruction"
               ops  == parse_operands(tokens, idx + 1, <<>>)
           IN [err |-> ops.err,
               pl  |-> [label |-> label, kind |-> kind, op |-> op,
                        operands |-> ops.operands]]

parse_tokens(tokens) ==
    IF tokens = <<>> THEN [err |-> "", pl |-> EmptyLine]
    ELSE
      LET hasLabel == /\ Len(tokens) >= 2
                      /\ tokens[1].type = "Identifier"
                      /\ tokens[2].type = "Colon"
          label    == IF hasLabel THEN tokens[1].text ELSE <<>>
          idx      == IF hasLabel THEN 3 ELSE 1
      IN IF idx > Len(tokens)
         THEN [err |-> "", pl |-> [EmptyLine EXCEPT !.label = label]]
         ELSE IF tokens[idx].type # "Identifier"
         THEN [err |-> "Expected instruction or directive", pl |-> EmptyLine]
         ELSE
           LET op   == tokens[idx].text
               kind == IF op # <<>> /\ op[1] = "." THEN "Directive" ELSE "Instruction"
               ops  == parse_operands(tokens, idx + 1, <<>>)
           IN [err |-> ops.err,
               pl  |-> [label |-> label, kind |-> kind, op |-> op,
                        operands |-> ops.operands]]

----------------------------------------------------------------------------
(* Numbers and registers *)

INT_MAX == 2147483647

HexSeq == <<"0","1","2","3","4","5","6","7","8","9","A","B","C","D","E","F">>

HexDigits == SeqRange(HexSeq)
HexVal == [c \in HexDigits |-> IndexOf(HexSeq, c) - 1]

IsDigitIn(c, base) ==
    IF base = 16 THEN toupper(c) \in HexDigits ELSE isdigit(c)
DigitVal(c) == HexVal[toupper(c)]

\* std::stoi's digit loop: the value of the longest prefix of valid digits
\* starting at i, or -1 when it leaves the range of int (std::out_of_range)
RECURSIVE stoi_digits(_, _, _, _)
stoi_digits(text, i, base, acc) ==
    IF i > Len(text) \/ ~IsDigitIn(text[i], base) THEN acc
    ELSE LET d == DigitVal(text[i]) IN
         IF acc > (INT_MAX - d) \div base THEN -1
         ELSE stoi_digits(text, i + 1, base, acc * base + d)

\* std::stoi(text, &idx, base) on a token that starts with a digit
stoi(text, base) ==
    IF /\ base = 16
       /\ Len(text) >= 3
       /\ IsDigitIn(text[3], 16)
    THEN stoi_digits(text, 3, 16, 0)       \* "0x" prefix skipped
    ELSE stoi_digits(text, 1, base, 0)     \* for "0xZ" this reads the "0"

\* the base parse_number16 hands to std::stoi
number_base(text) ==
    IF Len(text) > 2 /\ text[1] = "0" /\ (text[2] = "x" \/ text[2] = "X")
    THEN 16 ELSE 10

\* the range check on std::stoi's result; -1 stands for std::out_of_range
number_range16(val) ==
    IF val = -1 THEN [err |-> "stoi", val |-> 0]
    ELSE IF val < 0 \/ val > 65535
    THEN [err |-> "Immediate/address out of range for 16-bit value", val |-> 0]
    ELSE [err |-> "", val |-> val]

parse_number16(text) == number_range16(stoi(text, number_base(text)))

\* part_002's parse_number16: the same conversion, its own message
parse_number16_2(text) ==
    IF parse_number16(text).err = "Immediate/address out of range for 16-bit value"
    THEN [err |-> "number out of range", val |-> 0]
    ELSE parse_number16(text)

reg_id_from_name(name) ==
    IF iequals(name, R0_s) THEN [err |-> "", val |-> 0]
    ELSE IF iequals(name, R1_s) THEN [err |-> "", val |-> 1]
    ELSE IF iequals(name, R2_s) THEN [err |-> "", val |-> 2]
    ELSE IF iequals(name, R3_s) THEN [err |-> "", val |-> 3]
    ELSE [err |-> "Unknown register", val |-> 0]

----------------------------------------------------------------------------
(* 16-bit arithmetic *)

RECURSIVE BitAnd(_, _)
BitAnd(a, b) ==
    IF a = 0 \/ b = 0 THEN 0
    ELSE (a % 2) * (b % 2) + 2 * BitAnd(a \div 2, b \div 2)

RECURSIVE BitOr(_, _)
BitOr(a, b) ==
    IF a = 0 THEN b
    ELSE IF b = 0 THEN a
    ELSE (IF a % 2 = 1 \/ b % 2 = 1 THEN 1 ELSE 0) + 2 * BitOr(a \div 2, b \div 2)

RECURSIVE Pow2(_)
Pow2(n) == IF n = 0 THEN 1 ELSE 2 * Pow2(n - 1)

Shl(a, n) == a * Pow2(n)          \* a << n on int
Shr(a, n) == a \div Pow2(n)       \* a >> n on a non-negative int
U16(x) == x % 65536               \* static_cast<std::uint16_t>; x & 0xFFFF
U8(x)  == x % 256                 \* static_cast<std::uint8_t>

----------------------------------------------------------------------------
(* Assembler context and instruction table *)

\* variant: the context is process-wide and survives from call to call
AsmContext_shared(storage) == storage

\* struct AsmContext: the default member initializers.  `storage` is
\* whatever the object's storage held before construction; construction
\* overwrites all of it.
AsmContext(storage) ==
    [current_addr_words |-> 32768, symbols |-> <<>>, line_addr |-> <<>>]

NoInstr == [name |-> <<>>, opcode |-> 255]

INSTR_TABLE ==
    << [name |-> NOP_s,  opcode |-> 0],
       [name |-> HALT_s, opcode |-> 1],
       [name |-> ADD_s,  opcode |-> 5],
       [name |-> JMP_s,  opcode |-> 13],
       [name |-> JZ_s,   opcode |-> 14] >>

\* returns NoInstr for nullptr
find_instr(op_upper) ==
    IF \E i \in DOMAIN INSTR_TABLE : iequals(op_upper, INSTR_TABLE[i].name)
    THEN INSTR_TABLE[CHOOSE i \in DOMAIN INSTR_TABLE :
                        /\ iequals(op_upper, INSTR_TABLE[i].name)
                        /\ \A j \in 1..(i-1) : ~iequals(op_upper, INSTR_TABLE[j].name)]
    ELSE NoInstr

has_instr(op_upper) == find_instr(op_upper) # NoInstr

\* variant: the duplicate check never finds the name
symbol_exists_never(c, name) == FALSE

symbol_exists(c, name) == \E i \in DOMAIN c.symbols : c.symbols[i].name = name

lookup_symbol(c, name) ==
    IF \E i \in DOMAIN c.symbols : c.symbols[i].name = name
    THEN [err |-> "",
          val |-> c.symbols[CHOOSE i \in DOMAIN c.symbols :
                               /\ c.symbols[i].name = name
                               /\ \A j \in 1..(i-1) : c.symbols[j].name # name].addr]
    ELSE [err |-> "Unknown label", val |-> 0]

----------------------------------------------------------------------------
(* Pass 1 (assembler.cpp) *)

\* one iteration of pass1's loop
pass1_line(pl, c) ==
    LET c1 == [c EXCEPT !.line_addr = Append(@, c.current_addr_words)]
        dup == pl.label # <<>> /\ symbol_exists(c1, pl.label)
        c2 == IF pl.label # <<>>
              THEN [c1 EXCEPT !.symbols =
                       Append(@, [name |-> pl.label, addr |-> c1.current_addr_words])]
              ELSE c1
        upper == ToUpperStr(pl.op)
    IN
    IF dup THEN [err |-> "Duplicate label", ctx |-> c1]
    ELSE IF pl.kind = "Directive" THEN
        IF iequals(pl.op, ORG_s) THEN
            IF Len(pl.operands) # 1 \/ pl.operands[1].kind # "RawNumber"
            THEN [err |-> ".org expects one numeric operand", ctx |-> c2]
            ELSE LET n == parse_number16(pl.operands[1].text)
                 IN IF n.err # "" THEN [err |-> n.err, ctx |-> c2]
                    ELSE [err |-> "", ctx |-> [c2 EXCEPT !.current_addr_words = n.val]]
        ELSE IF iequals(pl.op, WORD_s) THEN
            [err |-> "", ctx |-> [c2 EXCEPT !.current_addr_words = U16(@ + 1)]]
        ELSE [err |-> "", ctx |-> c2]
    ELSE IF pl.kind = "Instruction" THEN
        IF ~has_instr(upper) THEN [err |-> "", ctx |-> c2]
        ELSE LET c3 == [c2 EXCEPT !.current_addr_words = U16(@ + 1)]
             IN IF iequals(upper, ADD_s) THEN
                    IF Len(pl.operands) = 2 /\ pl.operands[2].kind = "Imm"
                    THEN [err |-> "", ctx |-> [c3 EXCEPT !.current_addr_words = U16(@ + 1)]]
                    ELSE [err |-> "", ctx |-> c3]
                ELSE IF iequals(upper, JMP_s) \/ iequals(upper, JZ_s)
                THEN [err |-> "", ctx |-> [c3 EXCEPT !.current_addr_words = U16(@ + 1)]]
                ELSE [err |-> "", ctx |-> c3]
    ELSE [err |-> "", ctx |-> c2]

\* pass1's loop from line i on; r is what the iteration on line i left
RECURSIVE pass1_from(_, _, _)
RECURSIVE pass1_next(_, _, _)
pass1_next(lines, i, r) ==
    IF r.err # "" THEN r ELSE pass1_from(lines, i + 1, r.ctx)

pass1_from(lines, i, c) ==
    IF i > Len(lines) THEN [err |-> "", ctx |-> c]
    ELSE pass1_next(lines, i, pass1_line(lines[i], c))

\* ctx.line_addr.resize(lines.size()): entries the loop has not reached
\* stay zero
line_addr_resize(lines, r) ==
    [err |-> r.err,
     ctx |-> [r.ctx EXCEPT !.line_addr =
                 [i \in 1..Len(lines) |->
                     IF i <= Len(r.ctx.line_addr) THEN r.ctx.line_addr[i] ELSE 0]]]

pass1(lines, c) ==
    line_addr_resize(lines, pass1_from(lines, 1, [c EXCEPT !.line_addr = <<>>]))

----------------------------------------------------------------------------
(* Pass 2 (assembler.cpp) *)

\* variant: rd shifted by 4 instead of 5
make_instr_word_rd4(opcode, mode, rd, rs) ==
    LET w1 == U16(BitOr(0, Shl(BitAnd(opcode, 31), 11)))
        w2 == U16(BitOr(w1, Shl(BitAnd(mode, 7), 8)))
        w3 == U16(BitOr(w2, Shl(BitAnd(rd, 7), 4)))
        w4 == U16(BitOr(w3, Shl(BitAnd(rs, 7), 2)))
    IN w4

make_instr_word(opcode, mode, rd, rs) ==
    LET w0 == 0
        w1 == U16(BitOr(w0, Shl(BitAnd(opcode, 31), 11)))
        w2 == U16(BitOr(w1, Shl(BitAnd(mode, 7), 8)))
        w3 == U16(BitOr(w2, Shl(BitAnd(rd, 7), 5)))
        w4 == U16(BitOr(w3, Shl(BitAnd(rs, 7), 2)))
    IN w4

\* variant: rd and rs change places in the word
emit_add_reg_swapped(opcode, rd, rs, words) ==
    IF rs.err # "" THEN [err |-> rs.err, words |-> words]
    ELSE [err |-> "", words |-> Append(words, make_instr_word(opcode, 0, rs.val, rd))]

\* ADD Rd, Rs: one word, mode 0; rs is reg_id_from_name's result
emit_add_reg(opcode, rd, rs, words) ==
    IF rs.err # "" THEN [err |-> rs.err, words |-> words]
    ELSE [err |-> "", words |-> Append(words, make_instr_word(opcode, 0, rd, rs.val))]

\* ADD Rd, #imm: the instruction word and the immediate word; imm is
\* parse_number16's result
emit_add_imm(opcode, mode, rd, imm, words) ==
    IF imm.err # "" THEN [err |-> imm.err, words |-> words]
    ELSE [err |-> "", words |-> words \o <<make_instr_word(opcode, mode, rd, 0), imm.val>>]

\* variant: the immediate form is encoded with mode 2
pass2_add_mode2(pl, opcode, words) ==
    IF Len(pl.operands) # 2 THEN [err |-> "ADD expects two operands", words |-> words]
    ELSE IF pl.operands[1].kind # "Reg"
    THEN [err |-> "ADD first operand must be register", words |-> words]
    ELSE IF reg_id_from_name(pl.operands[1].text).err # ""
    THEN [err |-> "Unknown register", words |-> words]
    ELSE IF pl.operands[2].kind = "Reg"
    THEN emit_add_reg(opcode, reg_id_from_name(pl.operands[1].text).val,
                      reg_id_from_name(pl.operands[2].text), words)
    ELSE IF pl.operands[2].kind = "Imm"
    THEN emit_add_imm(opcode, 2, reg_id_from_name(pl.operands[1].text).val,
                      parse_number16(pl.operands[2].text), words)
    ELSE [err |-> "Unsupported ADD operand", words |-> words]

\* the ADD branch of pass2
pass2_add(pl, opcode, words) ==
    IF Len(pl.operands) # 2 THEN [err |-> "ADD expects two operands", words |-> words]
    ELSE IF pl.operands[1].kind # "Reg"
    THEN [err |-> "ADD first operand must be register", words |-> words]
    ELSE IF reg_id_from_name(pl.operands[1].text).err # ""
    THEN [err |-> "Unknown register", words |-> words]
    ELSE IF pl.operands[2].kind = "Reg"
    THEN emit_add_reg(opcode, reg_id_from_name(pl.operands[1].text).val,
                      reg_id_from_name(pl.operands[2].text), words)
    ELSE IF pl.operands[2].kind = "Imm"
    THEN emit_add_imm(opcode, 1, reg_id_from_name(pl.operands[1].text).val,
                      parse_number16(pl.operands[2].text), words)
    ELSE [err |-> "Unsupported ADD operand", words |-> words]

\* offset16 of a PC-relative jump at current_addr_words to target_words
jump_offset16(target_words, current_addr_words) ==
    LET next_pc_words == current_addr_words + 2
        offset        == target_words - next_pc_words
    IN U16(offset)

\* target_words of a jump: a label's address or a raw number
jump_target(operand, c) ==
    IF operand.kind = "LabelRef" THEN lookup_symbol(c, operand.text)
    ELSE IF operand.kind = "RawNumber" THEN parse_number16(operand.text)
    ELSE [err |-> "Unsupported jump operand", val |-> 0]

\* variant: the offset word is left out
emit_jump_one_word(opcode, current_addr_words, target, words) ==
    IF target.err # "" THEN [err |-> target.err, words |-> words]
    ELSE [err |-> "", words |-> Append(words, make_instr_word(opcode, 5, 0, 0))]

\* the jump's instruction word (mode 5) and its offset word
emit_jump(opcode, current_addr_words, target, words) ==
    IF target.err # "" THEN [err |-> target.err, words |-> words]
    ELSE [err |-> "",
          words |-> words \o <<make_instr_word(opcode, 5, 0, 0),
                               jump_offset16(target.val, current_addr_words)>>]

\* variant: a label resolves only when it was defined before the jump
pass2_jump_backward_only(pl, c, opcode, current_addr_words, words) ==
    IF Len(pl.operands) # 1 THEN [err |-> "Jump expects one operand", words |-> words]
    ELSE emit_jump(opcode, current_addr_words,
                   jump_target(pl.operands[1],
                               [c EXCEPT !.symbols =
                                   SelectSeq(@, LAMBDA sy : sy.addr <= current_addr_words)]),
                   words)

\* the JMP / JZ branch of pass2
pass2_jump(pl, c, opcode, current_addr_words, words) ==
    IF Len(pl.operands) # 1 THEN [err |-> "Jump expects one operand", words |-> words]
    ELSE emit_jump(opcode, current_addr_words, jump_target(pl.operands[1], c), words)

\* the .word branch of pass2
word_value(operand, c) ==
    IF operand.kind = "RawNumber" THEN parse_number16(operand.text)
    ELSE IF operand.kind = "LabelRef" THEN lookup_symbol(c, operand.text)
    ELSE [err |-> "Unsupported operand for .word", val |-> 0]

emit_word(value, words) ==
    IF value.err # "" THEN [err |-> value.err, words |-> words]
    ELSE [err |-> "", words |-> Append(words, value.val)]

pass2_word(pl, c, words) ==
    IF Len(pl.operands) # 1 THEN [err |-> ".word expects one operand", words |-> words]
    ELSE emit_word(word_value(pl.operands[1], c), words)

\* pass2's dispatch on a mnemonic the table holds; opcode is info->opcode
pass2_instr(pl, c, upper, opcode, current_addr_words, words) ==
    IF iequals(upper, NOP_s) \/ iequals(upper, HALT_s)
    THEN [err |-> "", words |-> Append(words, make_instr_word(opcode, 0, 0, 0))]
    ELSE IF iequals(upper, ADD_s) THEN pass2_add(pl, opcode, words)
    ELSE IF iequals(upper, JMP_s) \/ iequals(upper, JZ_s)
    THEN pass2_jump(pl, c, opcode, current_addr_words, words)
    ELSE [err |-> "Instruction not yet supported in assembler", words |-> words]

\* variant: an unknown mnemonic is skipped, as Pass 1 skips it
pass2_line_skip_unknown(pl, c, i, words) ==
    IF pl.kind = "Directive" THEN
        IF iequals(pl.op, ORG_s) THEN [err |-> "", words |-> words]
        ELSE IF iequals(pl.op, WORD_s) THEN pass2_word(pl, c, words)
        ELSE [err |-> "", words |-> words]
    ELSE IF pl.kind # "Instruction" THEN [err |-> "", words |-> words]
    ELSE IF ~has_instr(ToUpperStr(pl.op)) THEN [err |-> "", words |-> words]
    ELSE pass2_instr(pl, c, ToUpperStr(pl.op), find_instr(ToUpperStr(pl.op)).opcode,
                     c.line_addr[i], words)

\* one iteration of pass2's loop; i is the line's index
pass2_line(pl, c, i, words) ==
    IF pl.kind = "Directive" THEN
        IF iequals(pl.op, ORG_s) THEN [err |-> "", words |-> words]
        ELSE IF iequals(pl.op, WORD_s) THEN pass2_word(pl, c, words)
        ELSE [err |-> "", words |-> words]
    ELSE IF pl.kind # "Instruction" THEN [err |-> "", words |-> words]
    ELSE IF ~has_instr(ToUpperStr(pl.op)) THEN [err |-> "Unknown instruction", words |-> words]
    ELSE pass2_instr(pl, c, ToUpperStr(pl.op), find_instr(ToUpperStr(pl.op)).opcode,
                     c.line_addr[i], words)

\* pass2's loop from line i on; r is what the iteration on line i left
RECURSIVE pass2_from(_, _, _, _)
RECURSIVE pass2_next(_, _, _, _)
pass2_next(lines, c, i, r) ==
    IF r.err # "" THEN r ELSE pass2_from(lines, c, i + 1, r.words)

pass2_from(lines, c, i, words) ==
    IF i > Len(lines) THEN [err |-> "", words |-> words]
    ELSE pass2_next(lines, c, i, pass2_line(lines[i], c, i, words))

pass2(lines, c, words) == pass2_from(lines, c, 1, words)

----------------------------------------------------------------------------
(* Byte packing and assemble (assembler.cpp) *)

\* variant: high byte first
RECURSIVE words_to_bytes_be(_)
words_to_bytes_be(words) ==
    IF words = <<>> THEN <<>>
    ELSE LET w == Head(words)
         IN <<U8(BitAnd(Shr(w, 8), 255)), U8(BitAnd(w, 255))>> \o words_to_bytes_be(Tail(words))

\* the loop that appends lo, hi for every word
RECURSIVE words_to_bytes(_)
words_to_bytes(words) ==
    IF words = <<>> THEN <<>>
    ELSE LET w  == Head(words)
             lo == U8(BitAnd(w, 255))
             hi == U8(BitAnd(Shr(w, 8), 255))
         IN <<lo, hi>> \o words_to_bytes(Tail(words))

\* the getline loop: blank lines are skipped, every other line is
\* tokenized and parsed; the first exception ends the loop
RECURSIVE read_lines(_, _, _)
RECURSIVE read_tokens(_, _, _, _)
RECURSIVE read_parsed(_, _, _, _)
read_parsed(src, i, lines, p) ==
    IF p.err # "" THEN [err |-> p.err, lines |-> lines]
    ELSE read_lines(src, i + 1, Append(lines, p.pl))

read_tokens(src, i, lines, t) ==
    IF t.err # "" THEN [err |-> t.err, lines |-> lines]
    ELSE read_parsed(src, i, lines, parse_tokens(t.tokens))

read_lines(src, i, lines) ==
    IF i > Len(src) THEN [err |-> "", lines |-> lines]
    ELSE IF trim(src[i]) = <<>> THEN read_lines(src, i + 1, lines)
    ELSE read_tokens(src, i, lines, tokenize_line(src[i]))

\* What a call returns or throws.  err, bytes are what the caller sees;
\* stage, lines, words and ctx record the locals at the point the call ended.
Outcome(err, stage, bytes, lines, words, c) ==
    [err |-> err, stage |-> stage, bytes |-> bytes,
     lines |-> lines, words |-> words, ctx |-> c]

\* variant: the words encoded before the exception are returned
thrown_bytes_partial(words) == words_to_bytes(words)

\* bytes handed to the caller when an exception leaves assemble
thrown_bytes(words) == <<>>

\* assemble after pass2 returned or threw p2
assemble_pack(lines, c, p2) ==
    IF p2.err # ""
    THEN Outcome(p2.err, "pass2", thrown_bytes(p2.words), lines, p2.words, c)
    ELSE Outcome("", "done", words_to_bytes(p2.words), lines, p2.words, c)

\* assemble after pass1 returned or threw p1
assemble_pass2(lines, p1) ==
    IF p1.err # "" THEN Outcome(p1.err, "pass1", thrown_bytes(<<>>), lines, <<>>, p1.ctx)
    ELSE assemble_pack(lines, p1.ctx, pass2(lines, p1.ctx, <<>>))

\* assemble after the getline loop ended with rd
assemble_pass1(rd, storage) ==
    IF rd.err # "" THEN Outcome(rd.err, "read", thrown_bytes(<<>>), rd.lines, <<>>, storage)
    ELSE assemble_pass2(rd.lines, pass1(rd.lines, AsmContext(storage)))

assemble(src, storage) == assemble_pass1(read_lines(src, 1, <<>>), storage)

----------------------------------------------------------------------------
(* The scratch assembler (part_002) *)

RECURSIVE parse_operands2(_, _, _)
parse_operands2(tokens, idx, operands) ==
    IF idx > Len(tokens) THEN [err |-> "", operands |-> operands]
    ELSE LET t == tokens[idx] IN
      IF t.type = "Comma" THEN parse_operands2(tokens, idx + 1, operands)
      ELSE IF t.type = "Register" THEN
          parse_operands2(tokens, idx + 1, Append(operands, Operand("Reg", t.text)))
      ELSE IF t.type = "Hash" THEN
          IF idx + 1 > Len(tokens) \/ tokens[idx + 1].type # "Number"
          THEN [err |-> "Expected number after '#'", operands |-> operands]
          ELSE parse_operands2(tokens, idx + 2,
                               Append(operands, Operand("Imm", tokens[idx + 1].text)))
      ELSE IF t.type = "Number" THEN
          parse_operands2(tokens, idx + 1, Append(operands, Operand("RawNumber", t.text)))
      ELSE IF t.type = "Identifier" THEN
          parse_operands2(tokens, idx + 1, Append(operands, Operand("LabelRef", t.text)))
      ELSE [err |-> "Unsupported operand token", operands |-> operands]

\* struct Line: kind stands for is_directive and op.empty()
parse_line_tokens(tokens) ==
    IF tokens = <<>> THEN [err |-> "", pl |-> EmptyLine]
    ELSE
      LET hasLabel == /\ Len(tokens) >= 2
                      /\ tokens[1].type = "Identifier"
                      /\ tokens[2].type = "Colon"
          label    == IF hasLabel THEN tokens[1].text ELSE <<>>
          idx      == IF hasLabel THEN 3 ELSE 1
      IN IF idx > Len(tokens)
         THEN [err |-> "", pl |-> [EmptyLine EXCEPT !.label = label]]
         ELSE IF tokens[idx].type # "Identifier"
         THEN [err |-> "Expected mnemonic or directive", pl |-> EmptyLine]
         ELSE
           LET op   == tokens[idx].text
               kind == IF op # <<>> /\ op[1] = "." THEN "Directive" ELSE "Instruction"
               ops  == parse_operands2(tokens, idx + 1, <<>>)
           IN [err |-> ops.err,
               pl  |-> [label |-> label, kind |-> kind, op |-> op,
                        operands |-> ops.operands]]

RECURSIVE read_lines2(_, _, _)
RECURSIVE read_tokens2(_, _, _, _)
RECURSIVE read_parsed2(_, _, _, _)
read_parsed2(src, i, lines, p) ==
    IF p.err # "" THEN [err |-> p.err, lines |-> lines]
    ELSE read_lines2(src, i + 1, Append(lines, p.pl))

read_tokens2(src, i, lines, tk) ==
    IF tk.err # "" THEN [err |-> tk.err, lines |-> lines]
    ELSE read_parsed2(src, i, lines, parse_line_tokens(tk.tokens))

read_lines2(src, i, lines) ==
    IF i > Len(src) THEN [err |-> "", lines |-> lines]
    ELSE IF trim(src[i]) = <<>> THEN read_lines2(src, i + 1, lines)
    ELSE read_tokens2(src, i, lines, tokenize_line2(trim(src[i])))

\* symbols.at(name) / symbols.find(name) on the unordered_map; the map is
\* kept as the sequence of its insertions, keys are unique
symbols_at(c, name, msg) ==
    IF \E i \in DOMAIN c.symbols : c.symbols[i].name = name
    THEN [err |-> "",
          val |-> c.symbols[CHOOSE i \in DOMAIN c.symbols : c.symbols[i].name = name].addr]
    ELSE [err |-> msg, val |-> 0]

\* .org: addr = v, v the operand's value or the exception it raised
org_to(c, v) ==
    IF v.err # "" THEN [err |-> v.err, ctx |-> c]
    ELSE [err |-> "", ctx |-> [c EXCEPT !.current_addr_words = v.val]]

\* one iteration of the pass-1 loop of part_002's assemble;
\* c.current_addr_words is the local addr
assemble2_pass1_line(l, c) ==
    LET c1 == [c EXCEPT !.line_addr = Append(@, c.current_addr_words)]
        dup == l.label # <<>> /\ (\E i \in DOMAIN c1.symbols : c1.symbols[i].name = l.label)
        c2 == IF l.label # <<>>
              THEN [c1 EXCEPT !.symbols =
                       Append(@, [name |-> l.label, addr |-> c1.current_addr_words])]
              ELSE c1
    IN
    IF dup THEN [err |-> "Duplicate label", ctx |-> c1]
    ELSE IF l.op = <<>> THEN [err |-> "", ctx |-> c2]
    ELSE IF l.kind = "Directive" THEN
        IF iequals(l.op, ORG_s) THEN
            IF \/ Len(l.operands) # 1
               \/ (l.operands[1].kind # "RawNumber" /\ l.operands[1].kind # "LabelRef")
            THEN [err |-> ".org expects one numeric or label operand", ctx |-> c2]
            ELSE org_to(c2, IF l.operands[1].kind = "RawNumber"
                            THEN parse_number16_2(l.operands[1].text)
                            ELSE symbols_at(c2, l.operands[1].text, "unordered_map::at"))
        ELSE IF iequals(l.op, WORD_s) THEN
            [err |-> "", ctx |-> [c2 EXCEPT !.current_addr_words = U16(@ + 1)]]
        ELSE [err |-> "", ctx |-> c2]
    ELSE IF iequals(l.op, NOP_s) \/ iequals(l.op, HALT_s)
    THEN [err |-> "", ctx |-> [c2 EXCEPT !.current_addr_words = U16(@ + 1)]]
    ELSE IF iequals(l.op, ADD_s) THEN
        LET c3 == [c2 EXCEPT !.current_addr_words = U16(@ + 1)]
        IN IF Len(l.operands) = 2 /\ l.operands[2].kind = "Imm"
           THEN [err |-> "", ctx |-> [c3 EXCEPT !.current_addr_words = U16(@ + 1)]]
           ELSE [err |-> "", ctx |-> c3]
    ELSE IF iequals(l.op, JMP_s) \/ iequals(l.op, JZ_s)
    THEN [err |-> "", ctx |-> [c2 EXCEPT !.current_addr_words = U16(@ + 2)]]
    ELSE [err |-> "", ctx |-> c2]

RECURSIVE assemble2_pass1(_, _, _)
RECURSIVE assemble2_pass1_next(_, _, _)
assemble2_pass1_next(lines, i, r) ==
    IF r.err # "" THEN r ELSE assemble2_pass1(lines, i + 1, r.ctx)

assemble2_pass1(lines, i, c) ==
    IF i > Len(lines) THEN [err |-> "", ctx |-> c]
    ELSE assemble2_pass1_next(lines, i, assemble2_pass1_line(lines[i], c))

\* opcode selection of part_002's pass 2; 255 stands for the throw
opcode_of2(op) ==
    IF iequals(op, NOP_s) THEN 0
    ELSE IF iequals(op, HALT_s) THEN 1
    ELSE IF iequals(op, ADD_s) THEN 5
    ELSE IF iequals(op, JMP_s) THEN 13
    ELSE IF iequals(op, JZ_s) THEN 14
    ELSE 255

\* the jump's two words; target is the operand's value or the exception
emit_jump2(opcode, cur_addr, target, words) ==
    IF target.err # "" THEN [err |-> target.err, words |-> words]
    ELSE [err |-> "",
          words |-> words \o <<make_instr_word(opcode, 5, 0, 0),
                               U16(target.val - (cur_addr + 2))>>]

\* the instruction branch of the pass-2 loop of part_002's assemble
assemble2_instr(l, c, opcode, cur_addr, words) ==
    IF opcode = 255 THEN [err |-> "Unsupported instruction", words |-> words]
    ELSE IF opcode = 0 \/ opcode = 1
    THEN [err |-> "", words |-> Append(words, make_instr_word(opcode, 0, 0, 0))]
    ELSE IF opcode = 5 THEN
        IF Len(l.operands) # 2 THEN [err |-> "ADD expects two operands", words |-> words]
        ELSE IF l.operands[1].kind # "Reg"
        THEN [err |-> "ADD first operand must be reg", words |-> words]
        ELSE IF reg_id_from_name(l.operands[1].text).err # ""
        THEN [err |-> "Unknown register", words |-> words]
        ELSE IF l.operands[2].kind = "Reg"
        THEN emit_add_reg(opcode, reg_id_from_name(l.operands[1].text).val,
                          reg_id_from_name(l.operands[2].text), words)
        ELSE IF l.operands[2].kind = "Imm"
        THEN emit_add_imm(opcode, 1, reg_id_from_name(l.operands[1].text).val,
                          parse_number16_2(l.operands[2].text), words)
        ELSE [err |-> "Unsupported ADD second operand", words |-> words]
    ELSE \* opcode 13 or 14
        IF Len(l.operands) # 1 THEN [err |-> "Jump expects one operand", words |-> words]
        ELSE emit_jump2(opcode, cur_addr,
                        IF l.operands[1].kind = "LabelRef"
                        THEN symbols_at(c, l.operands[1].text, "Unknown label in jump")
                        ELSE IF l.operands[1].kind = "RawNumber"
                        THEN parse_number16_2(l.operands[1].text)
                        ELSE [err |-> "Unsupported jump operand", val |-> 0],
                        words)

\* one iteration of the pass-2 loop of part_002's assemble
assemble2_pass2_line(l, c, i, words) ==
    IF l.op = <<>> THEN [err |-> "", words |-> words]
    ELSE IF l.kind = "Directive" THEN
        IF iequals(l.op, ORG_s) THEN [err |-> "", words |-> words]
        ELSE IF iequals(l.op, WORD_s) THEN
            IF Len(l.operands) # 1
            THEN [err |-> ".word expects one operand", words |-> words]
            ELSE emit_word(IF l.operands[1].kind = "RawNumber"
                           THEN parse_number16_2(l.operands[1].text)
                           ELSE IF l.operands[1].kind = "LabelRef"
                           THEN symbols_at(c, l.operands[1].text, "unordered_map::at")
                           ELSE [err |-> "Unsupported .word operand", val |-> 0],
                           words)
        ELSE [err |-> "", words |-> words]
    ELSE assemble2_instr(l, c, opcode_of2(l.op), c.line_addr[i], words)

RECURSIVE assemble2_pass2(_, _, _, _)
RECURSIVE assemble2_pass2_next(_, _, _, _)
assemble2_pass2_next(lines, c, i, r) ==
    IF r.err # "" THEN r ELSE assemble2_pass2(lines, c, i + 1, r.words)

assemble2_pass2(lines, c, i, words) ==
    IF i > Len(lines) THEN [err |-> "", words |-> words]
    ELSE assemble2_pass2_next(lines, c, i, assemble2_pass2_line(lines[i], c, i, words))

\* the final loop of part_002's assemble
RECURSIVE words_to_bytes2(_)
words_to_bytes2(words) ==
    IF words = <<>> THEN <<>>
    ELSE LET w == Head(words)
         IN <<U8(BitAnd(w, 255)), U8(BitAnd(Shr(w, 8), 255))>> \o words_to_bytes2(Tail(words))

\* part_002's locals symbols, line_addr and addr, created per call
\* (line_addr is sized lines.size() and filled by the loop)
assemble2_pack(lines, c, p2) ==
    IF p2.err # "" THEN Outcome(p2.err, "pass2", <<>>, lines, p2.words, c)
    ELSE Outcome("", "done", words_to_bytes2(p2.words), lines, p2.words, c)

assemble2_second(lines, p1) ==
    IF p1.err # "" THEN Outcome(p1.err, "pass1", <<>>, lines, <<>>, p1.ctx)
    ELSE assemble2_pack(lines, p1.ctx, assemble2_pass2(lines, p1.ctx, 1, <<>>))

assemble2_first(rd, storage) ==
    IF rd.err # "" THEN Outcome(rd.err, "read", <<>>, rd.lines, <<>>, storage)
    ELSE assemble2_second(rd.lines,
             line_addr_resize(rd.lines,
                 assemble2_pass1(rd.lines, 1,
                     [current_addr_words |-> 32768, symbols |-> <<>>,
                      line_addr |-> <<>>])))

assemble2(src, storage) == assemble2_first(read_lines2(src, 1, <<>>), storage)

----------------------------------------------------------------------------
(* The emulator test's hand encoding (main.cpp) *)

make_instruction(opcode, mode, rd, rs) ==
    U16(BitOr(BitOr(BitOr(Shl(U16(BitAnd(opcode, 31)), 11),
                          Shl(U16(BitAnd(mode, 7)), 8)),
                    Shl(U16(BitAnd(rd, 7)), 5)),
              Shl(U16(BitAnd(rs, 7)), 2)))

add_word_to_program(program, word) ==
    Append(Append(program, U8(BitAnd(word, 255))), U8(BitAnd(Shr(word, 8), 255)))

----------------------------------------------------------------------------
(* CPU: fetch, decode, execute *)

CODE_BASE  == 32768     \* 0x8000, the load address
SP_INIT    == 32767     \* 0x7FFF

OP_NOP  == 0
OP_HALT == 1
OP_ADD  == 5
OP_JMP  == 13
OP_JZ   == 14
OP_CALL == 19
OP_RET  == 20
OP_PUSH == 21
OP_POP  == 22

\* viewer.js at DOMContentLoaded: no trace, the viewer container hidden.
\* len is trace.length; timers counts the live setInterval timers and
\* playInterval tells whether the page holds a timer handle; frames counts
\* the runMaxSpeed callbacks handed to requestAnimationFrame and not yet run;
\* fetches counts the loadTrace fetches in flight
ViewerOff ==
    [len |-> 0, currentCycle |-> 0, sliderMax |-> 0, isPlaying |-> FALSE,
     playInterval |-> FALSE, timers |-> 0, playSpeed |-> 1000, frames |-> 0,
     shown |-> FALSE, fetches |-> 0]

\* ram holds every byte written since load; trace is the execution trace
CpuOff ==
    [status |-> "off", mem |-> <<>>, base |-> 0, ram |-> <<>>,
     R |-> [r \in 0..7 |-> 0], SP |-> SP_INIT, PC |-> 0,
     Z |-> 0, N |-> 0, C |-> 0, V |-> 0,
     IR |-> 0, cycles |-> 0, trace |-> <<>>,
     lastPC |-> 0, lastOp |-> 0, lastTaken |-> FALSE]

\* memory holds the written bytes, the loaded image at
\* base..base+Len(mem)-1 and zero elsewhere
read8(c, addr) ==
    IF addr \in DOMAIN c.ram THEN c.ram[addr]
    ELSE IF addr >= c.base /\ addr < c.base + Len(c.mem) THEN c.mem[addr - c.base + 1]
    ELSE 0

mem16(c, addr) == read8(c, addr) + 256 * read8(c, U16(addr + 1))

sign_extend(w) == IF w >= 32768 THEN w - 65536 ELSE w

decode(ir) ==
    [opcode |-> Shr(ir, 11) % 32,
     mode   |-> Shr(ir, 8) % 8,
     rd     |-> Shr(ir, 5) % 8,
     rs     |-> Shr(ir, 2) % 8]

\* variant: the carry is read off the truncated result
add_flags_carry_of_result(a, b) ==
    [res |-> U16(a + b),
     Z |-> IF U16(a + b) = 0 THEN 1 ELSE 0,
     N |-> IF U16(a + b) >= 32768 THEN 1 ELSE 0,
     C |-> IF U16(a + b) > 65535 THEN 1 ELSE 0,
     V |-> IF (a >= 32768) = (b >= 32768) /\ (U16(a + b) >= 32768) # (a >= 32768)
           THEN 1 ELSE 0]

\* flags of a 16-bit addition a + b
add_flags(a, b) ==
    LET sum == a + b
        res == U16(sum)
    IN [res |-> res,
        Z |-> IF res = 0 THEN 1 ELSE 0,
        N |-> IF res >= 32768 THEN 1 ELSE 0,
        C |-> IF sum > 65535 THEN 1 ELSE 0,
        V |-> IF (a >= 32768) = (b >= 32768) /\ (res >= 32768) # (a >= 32768)
              THEN 1 ELSE 0]

load_program(program, base) ==
    [CpuOff EXCEPT !.status = "running", !.mem = program, !.base = base, !.PC = base]

\* the opcode/mode combinations that consume an extra word
has_extra(d) ==
    \/ d.opcode = OP_ADD /\ d.mode = 1
    \/ d.opcode \in {OP_JMP, OP_JZ, OP_CALL} /\ d.mode = 5

\* what an instruction leaves behind: the state it does not touch, with
\* PC advanced to pc
Effect(c, pc) ==
    [PC |-> pc, R |-> c.R, SP |-> c.SP, Z |-> c.Z, N |-> c.N, C |-> c.C, V |-> c.V,
     status |-> "running", writes |-> <<>>, taken |-> FALSE]

\* the write list of a 16-bit store at addr: low byte, then high byte
store16(c, addr, w) ==
    << [addr |-> addr, old |-> read8(c, addr), new |-> w % 256],
       [addr |-> U16(addr + 1), old |-> read8(c, U16(addr + 1)), new |-> w \div 256] >>

\* ADD: rd and the four flags take the ALU's result f
alu_result(e, rd, f) ==
    [e EXCEPT !.R[rd] = f.res, !.Z = f.Z, !.N = f.N, !.C = f.C, !.V = f.V]

\* variant: PUSH moves SP by one byte
push_sp_by_one(sp) == U16(sp - 1)

\* SP after PUSH and CALL: pre-decrement by 2
push_sp(sp) == U16(sp - 2)

\* variant: POP leaves SP where it was
pop_sp_stuck(sp) == sp

\* SP after POP and RET: post-increment by 2
pop_sp(sp) == U16(sp + 2)

\* variant: CALL saves the address of its own offset word
call_return_pc1(pc1, pc2) == pc1

\* the return address CALL saves: the already-advanced PC
call_return(pc1, pc2) == pc2

\* PUSH, POP, CALL, RET; the value v goes to or comes from the stack
stack_push(c, e, v) ==
    [e EXCEPT !.SP = push_sp(c.SP), !.writes = store16(c, push_sp(c.SP), v)]

\* execute: the dispatch over the opcode set; pc1 is PC after the fetch,
\* pc2 after the fetch of the extra word ext
execute(c, d, ext, pc1, pc2) ==
    IF d.opcode = OP_NOP THEN Effect(c, pc1)
    ELSE IF d.opcode = OP_HALT THEN [Effect(c, pc1) EXCEPT !.status = "halted"]
    ELSE IF d.opcode = OP_ADD /\ d.mode = 0
    THEN alu_result(Effect(c, pc1), d.rd, add_flags(c.R[d.rd], c.R[d.rs]))
    ELSE IF d.opcode = OP_ADD /\ d.mode = 1
    THEN alu_result(Effect(c, pc2), d.rd, add_flags(c.R[d.rd], ext))
    ELSE IF d.opcode = OP_JMP /\ d.mode = 5
    THEN [Effect(c, U16(pc2 + sign_extend(ext))) EXCEPT !.taken = TRUE]
    ELSE IF d.opcode = OP_JZ /\ d.mode = 5
    THEN IF c.Z = 1
         THEN [Effect(c, U16(pc2 + sign_extend(ext))) EXCEPT !.taken = TRUE]
         ELSE Effect(c, pc2)
    ELSE IF d.opcode = OP_PUSH THEN stack_push(c, Effect(c, pc1), c.R[d.rd])
    ELSE IF d.opcode = OP_POP
    THEN [Effect(c, pc1) EXCEPT !.R[d.rd] = mem16(c, c.SP), !.SP = pop_sp(c.SP)]
    ELSE IF d.opcode = OP_CALL /\ d.mode = 5
    THEN stack_push(c, [Effect(c, U16(pc2 + sign_extend(ext))) EXCEPT !.taken = TRUE],
                    call_return(pc1, pc2))
    ELSE IF d.opcode = OP_RET
    THEN [Effect(c, mem16(c, c.SP)) EXCEPT !.SP = pop_sp(c.SP), !.taken = TRUE]
    ELSE [Effect(c, pc1) EXCEPT !.status = "fault"]

\* memory after the writes of one cycle, applied in order
RECURSIVE apply_writes(_, _)
apply_writes(ram, writes) ==
    IF writes = <<>> THEN ram
    ELSE apply_writes((Head(writes).addr :> Head(writes).new) @@ ram, Tail(writes))

\* variant: the entry records the PC after the fetch advance
trace_entry_advanced_pc(c, d, ext, e) ==
    [cycle |-> c.cycles, pc |-> U16(c.PC + 2), regs |-> e.R, sp |-> e.SP,
     flags |-> 8 * e.Z + 4 * e.N + 2 * e.C + e.V,
     instr |-> [opcode |-> d.opcode, mode |-> d.mode, rd |-> d.rd, rs |-> d.rs,
                extra |-> IF has_extra(d) THEN ext ELSE 0],
     mem_writes |-> e.writes]

\* the CycleTraceEntry of the instruction fetched from c.PC
trace_entry(c, d, ext, e) ==
    [cycle |-> c.cycles, pc |-> c.PC, regs |-> e.R, sp |-> e.SP,
     flags |-> 8 * e.Z + 4 * e.N + 2 * e.C + e.V,
     instr |-> [opcode |-> d.opcode, mode |-> d.mode, rd |-> d.rd, rs |-> d.rs,
                extra |-> IF has_extra(d) THEN ext ELSE 0],
     mem_writes |-> e.writes]

\* variant: the cycle guard never fires
ended_never(x) == x

\* the maximum-cycle guard of the run loop
ended(x) ==
    IF x.status = "running" /\ x.cycles >= MaxCycles
    THEN [x EXCEPT !.status = "exhausted"] ELSE x

\* the step completes: state, memory and trace change together
retire(c, ir, d, ext, e) ==
    ended([c EXCEPT !.PC = e.PC, !.R = e.R, !.SP = e.SP,
                    !.Z = e.Z, !.N = e.N, !.C = e.C, !.V = e.V,
                    !.status = e.status, !.IR = ir, !.cycles = @ + 1,
                    !.ram = apply_writes(@, e.writes),
                    !.trace = Append(@, trace_entry(c, d, ext, e)),
                    !.lastPC = c.PC, !.lastOp = d.opcode, !.lastTaken = e.taken])

step_decoded(c, ir, d, ext) ==
    retire(c, ir, d, ext, execute(c, d, ext, U16(c.PC + 2), U16(c.PC + 4)))

\* one cycle: fetch, decode, execute, retire
step(c) == step_decoded(c, mem16(c, c.PC), decode(mem16(c, c.PC)), mem16(c, U16(c.PC + 2)))

----------------------------------------------------------------------------
(* Source lines the specifications draw programs from *)

SPC == <<" ">>
loop_s == <<"l","o","o","p">>
done_s == <<"d","o","n","e">>

\* label and jump lines, after examples/add_jmp.asm
Ln_loop_ADD_1 == loop_s \o <<":", " ">> \o ADD_s \o SPC \o R0_s \o <<",", " ", "#", "1">>
Ln_JMP_loop   == <<" ", " ">> \o JMP_s \o SPC \o loop_s \o <<" ", ";", " ", "l", "o", "o", "p">>
Ln_JZ_done    == JZ_s \o SPC \o done_s
Ln_done_HALT  == done_s \o <<":">> \o SPC \o HALT_s
Ln_org_0      == <<".","o","r","g"," ","0">>
Ln_add_0      == <<"a","d","d"," ","r","0",","," ","#","0">>

\* lines that are rejected at each stage
Ln_loop_NOP   == loop_s \o <<":">> \o SPC \o NOP_s
Ln_loop_HALT  == loop_s \o <<":">> \o SPC \o HALT_s
Ln_MOV        == <<"M","O","V">> \o SPC \o R0_s \o <<",", " ">> \o R1_s
Ln_ADD_hash   == ADD_s \o SPC \o R0_s \o <<",", " ", "#">>
Ln_ADD_at     == ADD_s \o SPC \o R0_s \o <<",", " ", "@">>
Ln_JMP_done   == JMP_s \o SPC \o done_s

\* the lines of the emulator test's program
Ln_NOP        == NOP_s
Ln_HALT       == HALT_s
Ln_ADD_10     == ADD_s \o SPC \o R0_s \o <<",", " ", "#", "1", "0">>
Ln_ADD_5      == ADD_s \o SPC \o R0_s \o <<",", " ", "#", "5">>
Ln_add_FFFF   == <<"a","d","d"," ","r","0",","," ","#","0","x","F","F","F","F">>

\* lines of tests/assembly/test_stack.asm and of the other instruction forms
Ln_PUSH_R0    == <<" "," ","P","U","S","H"," ","R","0">>
Ln_POP_R0     == <<" "," ","P","O","P"," ","R","0">>
Ln_RET        == <<" "," ","R","E","T">>
Ln_SUB        == <<"S","U","B"," ","R","0",","," ","R","1">>
Ln_JNZ_done   == <<" "," ","J","N","Z"," ","d","o","n","e">>
Ln_CALL_done  == <<" "," ","C","A","L","L"," ","d","o","n","e">>

\* register-to-register ADD over the register file
Ln_ADD_R1_R2  == <<"A","D","D"," ","R","1",","," ","R","2">>
Ln_add_r3_r0  == <<"a","d","d"," ","r","3",","," ","r","0">>
Ln_ADD_R5_R6  == <<"A","D","D"," ","R","5",","," ","R","6">>
Ln_add_r7_r4  == <<"a","d","d"," ","r","7",","," ","r","4">>

\* ADD with each operand shape
Ln_add_r2_513    == <<"a","d","d"," ","r","2",","," ","#","5","1","3">>
Ln_ADD_imm_R0    == <<"A","D","D"," ","#","1",","," ","R","0">>
Ln_ADD_R0_done   == <<"A","D","D"," ","R","0",","," ","d","o","n","e">>
Ln_ADD_R0        == <<"A","D","D"," ","R","0">>
Ln_ADD_R0_R1_R2  == <<"A","D","D"," ","R","0",","," ","R","1",","," ","R","2">>

\* data words and label-only lines
Ln_word_7     == <<".","w","o","r","d"," ","7">>
Ln_word_done  == <<".","w","o","r","d"," ","d","o","n","e">>
Ln_done_colon == done_s \o <<":">>

\* literals at and beyond the 16-bit range
Ln_ADD_65536    == <<"A","D","D"," ","R","0",","," ","#","6","5","5","3","6">>
Ln_JMP_65536    == <<"J","M","P"," ","6","5","5","3","6">>
Ln_JMP_0x8001   == <<"J","M","P"," ","0","x","8","0","0","1">>
Ln_word_0x10000 == <<".","w","o","r","d"," ","0","x","1","0","0","0","0">>
Ln_word_0XFFFF  == <<".","w","o","r","d"," ","0","X","F","F","F","F">>
Ln_org_65536    == <<".","o","r","g"," ","6","5","5","3","6">>
Ln_org_0x8001   == <<".","o","r","g"," ","0","x","8","0","0","1">>
Ln_JMP_0        == <<"J","M","P"," ","0">>

\* Number tokens with characters that are no digits of their base
Ln_ADD_12ab == <<"A","D","D"," ","R","0",","," ","#","1","2","a","b">>
Ln_ADD_0x   == <<"A","D","D"," ","R","0",","," ","#","0","x">>
Ln_ADD_0xZZ == <<"A","D","D"," ","R","0",","," ","#","0","x","Z","Z">>

JumpLines == {Ln_loop_ADD_1, Ln_JMP_loop, Ln_JZ_done, Ln_done_HALT, Ln_org_0, Ln_add_0}
ErrLines  == {Ln_loop_NOP, Ln_loop_HALT, Ln_MOV, Ln_ADD_hash, Ln_ADD_at, Ln_JMP_done}
AddLines  == {Ln_ADD_10, Ln_ADD_5, Ln_add_FFFF, Ln_HALT, Ln_NOP}
FormLines == {Ln_PUSH_R0, Ln_POP_R0, Ln_RET, Ln_SUB, Ln_JNZ_done, Ln_CALL_done, Ln_done_HALT}
RegLines  == {Ln_ADD_R1_R2, Ln_add_r3_r0, Ln_ADD_R5_R6, Ln_add_r7_r4, Ln_HALT}
DataLines == {Ln_word_7, Ln_word_done, Ln_done_colon, Ln_done_HALT, Ln_JMP_done, Ln_ADD_5}
LitLines  == {Ln_ADD_65536, Ln_add_FFFF, Ln_JMP_65536, Ln_JMP_0x8001, Ln_word_0x10000,
              Ln_word_0XFFFF, Ln_org_65536, Ln_org_0x8001, Ln_JMP_0}
NumLines  == {Ln_ADD_12ab, Ln_ADD_0x, Ln_ADD_0xZZ, Ln_add_FFFF, Ln_HALT}
ShapeLines == {Ln_ADD_R1_R2, Ln_add_r2_513, Ln_ADD_imm_R0, Ln_ADD_R0_done, Ln_ADD_R0,
               Ln_ADD_R0_R1_R2}

\* all source texts of at most MaxLines lines over an alphabet of lines
Programs(alphabet) == UNION {[1..n -> alphabet] : n \in 0..MaxLines}

\* the source text of the assemble calls that other callers make
OtherSource == <<Ln_loop_NOP, Ln_done_HALT>>

----------------------------------------------------------------------------
(* State machine *)

NoOutcome == [set |-> FALSE, err |-> "", bytes |-> <<>>]

InitWith(alphabet) ==
    /\ impl \in {"cpp", "part2"}
    /\ source \in Programs(alphabet)
    /\ ctx = [current_addr_words |-> 0, symbols |-> <<>>, line_addr |-> <<>>]
    /\ ret = [n |-> 0] @@ Outcome("", "none", <<>>, <<>>, <<>>, <<>>)
    /\ first = NoOutcome
    /\ calls = 0
    /\ tool = [exit |-> -1, written |-> FALSE, out |-> <<>>]
    /\ cpu = CpuOff
    /\ enc = [opcode |-> 0, mode |-> 0, rd |-> 0, rs |-> 0, done |-> FALSE,
              asm_word |-> 0, test_word |-> 0]
    /\ viewer = ViewerOff

Init    == InitWith(JumpLines)
InitErr == InitWith(ErrLines)
InitAdd == InitWith(AddLines)
InitForms == InitWith(FormLines)
InitRegs == InitWith(RegLines)
InitShapes == InitWith(ShapeLines)
InitData == InitWith(DataLines)
InitLit == InitWith(LitLines)
InitNum == InitWith(NumLines)

\* the assemble that is linked in
Assemble(src, storage) ==
    IF impl = "cpp" THEN assemble(src, storage) ELSE assemble2(src, storage)

\* main after assemble returned or threw r: the catch block returns 1,
\* otherwise the bytes are written and main returns 0
Returned(r) ==
    /\ ret' = [n |-> ret.n + 1] @@ r
    /\ ctx' = r.ctx
    /\ first' = IF first.set THEN first
                ELSE [set |-> TRUE, err |-> r.err, bytes |-> r.bytes]
    /\ tool' = IF r.err # ""
               THEN [tool EXCEPT !.exit = 1]
               ELSE [exit |-> 0, written |-> TRUE, out |-> r.bytes]

\* main of the command-line tool: assemble the input, write the output file
Main ==
    /\ calls < MaxCalls
    /\ Returned(Assemble(source, ctx))
    /\ calls' = calls + 1
    /\ UNCHANGED <<impl, source, cpu, enc, viewer>>

\* some other caller assembles another source text
AssembleOther ==
    /\ calls < MaxCalls
    /\ ctx' = Assemble(OtherSource, ctx).ctx
    /\ calls' = calls + 1
    /\ UNCHANGED <<impl, source, ret, first, tool, cpu, enc, viewer>>

\* the emulator loads the image the tool wrote
LoadProgram ==
    /\ tool.written
    /\ cpu.status = "off"
    /\ cpu' = load_program(tool.out, CODE_BASE)
    /\ UNCHANGED <<impl, source, ctx, ret, first, calls, tool, enc, viewer>>

\* the run loop retires one instruction
Step ==
    /\ cpu.status = "running"
    /\ cpu' = step(cpu)
    /\ UNCHANGED <<impl, source, ctx, ret, first, calls, tool, enc, viewer>>

Next == Main \/ AssembleOther \/ LoadProgram \/ Step

Spec    == Init /\ [][Next]_vars
SpecErr == InitErr /\ [][Next]_vars
SpecAdd == InitAdd /\ [][Next]_vars
SpecForms == InitForms /\ [][Next]_vars
SpecRegs == InitRegs /\ [][Next]_vars
SpecShapes == InitShapes /\ [][Next]_vars
SpecData == InitData /\ [][Next]_vars
SpecLit == InitLit /\ [][Next]_vars
SpecNum == InitNum /\ [][Next]_vars

\* the instruction-word encoders applied to every field combination
InitWord ==
    /\ impl = "cpp"
    /\ source = <<>>
    /\ ctx = [current_addr_words |-> 0, symbols |-> <<>>, line_addr |-> <<>>]
    /\ ret = [n |-> 0] @@ Outcome("", "none", <<>>, <<>>, <<>>, <<>>)
    /\ first = NoOutcome
    /\ calls = 0
    /\ tool = [exit |-> -1, written |-> FALSE, out |-> <<>>]
    /\ cpu = CpuOff
    /\ enc \in [opcode : 0..31, mode : 0..7, rd : 0..7, rs : 0..7, done : {FALSE},
                asm_word : {0}, test_word : {0}]
    /\ viewer = ViewerOff

Encode ==
    /\ ~enc.done
    /\ enc' = [enc EXCEPT !.done = TRUE,
                          !.asm_word  = make_instr_word(enc.opcode, enc.mode, enc.rd, enc.rs),
                          !.test_word = make_instruction(enc.opcode, enc.mode, enc.rd, enc.rs)]
    /\ UNCHANGED <<impl, source, ctx, ret, first, calls, tool, cpu, viewer>>

NextWord == Encode

SpecWord == InitWord /\ [][NextWord]_vars

----------------------------------------------------------------------------
(* Programs encoded by hand, as the emulator test of main.cpp builds its   *)
(* program, and run on the CPU                                              *)

I_NOP          == <<make_instruction(OP_NOP, 0, 0, 0)>>
I_HALT         == <<make_instruction(OP_HALT, 0, 0, 0)>>
I_RET          == <<make_instruction(OP_RET, 0, 0, 0)>>
I_PUSH(r)      == <<make_instruction(OP_PUSH, 0, r, 0)>>
I_POP(r)       == <<make_instruction(OP_POP, 0, r, 0)>>
I_ADD(rd, rs)  == <<make_instruction(OP_ADD, 0, rd, rs)>>
I_ADDI(rd, v)  == <<make_instruction(OP_ADD, 1, rd, 0), v>>
I_JMP(off)     == <<make_instruction(OP_JMP, 5, 0, 0), U16(off)>>
I_JZ(off)      == <<make_instruction(OP_JZ, 5, 0, 0), U16(off)>>
I_CALL(off)    == <<make_instruction(OP_CALL, 5, 0, 0), U16(off)>>

\* the bytes of a program of words, low byte first
RECURSIVE program_of(_, _)
program_of(program, words) ==
    IF words = <<>> THEN program
    ELSE program_of(add_word_to_program(program, Head(words)), Tail(words))

\* the instructions short programs are drawn from
StackInstrs ==
    { I_PUSH(0), I_PUSH(1), I_POP(1), I_POP(2), I_ADDI(0, 43690), I_ADDI(1, 65535),
      I_CALL(0), I_CALL(-4), I_RET, I_HALT }

\* all programs of at most n instructions
RECURSIVE InstrSeqs(_)
InstrSeqs(n) ==
    IF n = 0 THEN {<<>>}
    ELSE InstrSeqs(n - 1) \cup {s \o i : s \in InstrSeqs(n - 1), i \in StackInstrs}

\* main.cpp's test program: ADD R0, #10; ADD R0, #5; NOP; HALT
P_EmulatorTest == I_ADDI(0, 10) \o I_ADDI(0, 5) \o I_NOP \o I_HALT

\* examples/add_jmp.asm with its jump offset in bytes: the loop never ends
P_AddJmp == I_ADDI(0, 1) \o I_ADDI(0, 1) \o I_JMP(-8) \o I_HALT

\* tests/assembly/test_stack.asm, Test 1 / Test 2: two values pushed, two popped
P_PushPop == I_ADDI(0, 43690) \o I_PUSH(0) \o I_PUSH(1) \o I_POP(2) \o I_POP(3)

\* nested calls: 0x8000 CALL f; 0x8004 HALT; f: 0x8006 CALL g; 0x800A RET;
\* g: 0x800C RET
P_Nested == I_CALL(2) \o I_HALT \o I_CALL(2) \o I_RET \o I_RET

\* a recursive call: f: 0x8000 JZ ret; 0x8004 ADD R0, #0; 0x8008 CALL f;
\* ret: 0x800C RET
P_Recursive == I_JZ(8) \o I_ADDI(0, 0) \o I_CALL(-12) \o I_RET

\* operands at the edges of the 16-bit range
FlagOperands == {0, 1, 16384, 32767, 32768, 32769, 49152, 65535}

\* ADD in immediate mode and in register mode on every pair of operands
FlagPrograms ==
    {I_ADDI(0, a) \o I_ADDI(0, b) \o I_HALT : a \in FlagOperands, b \in FlagOperands}
    \cup {I_ADDI(1, b) \o I_ADDI(0, a) \o I_ADD(0, 1) \o I_HALT :
            a \in FlagOperands, b \in FlagOperands}

\* the same program with the offset word the assembler emits for `JMP loop`,
\* counted in words: the JMP jumps to itself
P_AddJmpWords == I_ADDI(0, 1) \o I_ADDI(0, 1) \o I_JMP(-4) \o I_HALT

CpuPrograms ==
    InstrSeqs(MaxInstr) \cup FlagPrograms
    \cup {P_EmulatorTest, P_AddJmp, P_AddJmpWords, P_PushPop, P_Nested, P_Recursive}

\* the emulator test: the program is built in memory, loaded at 0x8000
\* and run; the run loop keeps stepping until the CPU stops
InitCpu ==
    /\ impl = "cpp"
    /\ source = <<>>
    /\ ctx = [current_addr_words |-> 0, symbols |-> <<>>, line_addr |-> <<>>]
    /\ ret = [n |-> 0] @@ Outcome("", "none", <<>>, <<>>, <<>>, <<>>)
    /\ first = NoOutcome
    /\ calls = 0
    /\ \E words \in CpuPrograms :
           tool = [exit |-> 0, written |-> TRUE, out |-> program_of(<<>>, words)]
    /\ cpu = CpuOff
    /\ enc = [opcode |-> 0, mode |-> 0, rd |-> 0, rs |-> 0, done |-> FALSE,
              asm_word |-> 0, test_word |-> 0]
    /\ viewer = ViewerOff

NextCpu == LoadProgram \/ Step

\* the emulator test calls load_program and then run, and the run loop
\* takes a step whenever the CPU is running: weak fairness of both actions.
\* For Step, WF_vars(Step) is written out as
\* []<>~ENABLED <<Step>>_vars \/ []<><<Step>>_vars, with the enabling
\* condition of the action (a step always adds a cycle, so it changes cpu)
SpecCpu ==
    /\ InitCpu /\ [][NextCpu]_vars
    /\ WF_vars(LoadProgram)
    /\ ([]<>~(cpu.status = "running") \/ []<><<Step>>_vars)

----------------------------------------------------------------------------
(* The trace viewer *)

\* viewer.js getAllMemoryWrites with the `old` byte taken for the `new` one
RECURSIVE getAllMemoryWrites_old(_, _)
getAllMemoryWrites_old(trace, upToCycle) ==
    IF upToCycle < 0 \/ trace = <<>> THEN <<>>
    ELSE IF upToCycle + 1 > Len(trace)
    THEN getAllMemoryWrites_old(trace, Len(trace) - 1)
    ELSE LET w == trace[upToCycle + 1].mem_writes
         IN [a \in {w[i].addr : i \in DOMAIN w} |->
                w[CHOOSE i \in DOMAIN w :
                    w[i].addr = a /\ \A m \in DOMAIN w : w[m].addr = a => m <= i].old]
            @@ getAllMemoryWrites_old(trace, upToCycle - 1)

\* viewer.js getAllMemoryWrites: the memory map after the entries 0..upToCycle
\* of the trace, each write list applied in order, the last write to an
\* address winning
RECURSIVE getAllMemoryWrites(_, _)
getAllMemoryWrites(trace, upToCycle) ==
    IF upToCycle < 0 \/ trace = <<>> THEN <<>>
    ELSE IF upToCycle + 1 > Len(trace)
    THEN getAllMemoryWrites(trace, Len(trace) - 1)
    ELSE LET w == trace[upToCycle + 1].mem_writes
         IN [a \in {w[i].addr : i \in DOMAIN w} |->
                w[CHOOSE i \in DOMAIN w :
                    w[i].addr = a /\ \A m \in DOMAIN w : w[m].addr = a => m <= i].new]
            @@ getAllMemoryWrites(trace, upToCycle - 1)

\* the values of the speed select: 0 is maximum speed
PlaySpeeds == {0, 1000}

stopPlayback(v) ==
    [v EXCEPT !.isPlaying = FALSE,
              !.timers = IF v.playInterval THEN @ - 1 ELSE @,
              !.playInterval = FALSE]

goToFirst(v) == [v EXCEPT !.currentCycle = 0]

goToPrevious(v) ==
    IF v.currentCycle > 0 THEN [v EXCEPT !.currentCycle = @ - 1] ELSE v

goToNext(v) ==
    IF v.currentCycle < v.len - 1 THEN [v EXCEPT !.currentCycle = @ + 1] ELSE v

goToLast(v) == [v EXCEPT !.currentCycle = v.len - 1]

\* the animation-frame callback of startPlayback; it requests itself again
\* after each advance
runMaxSpeed(v) ==
    IF ~v.isPlaying THEN v
    ELSE IF v.currentCycle < v.len - 1
    THEN [goToNext(v) EXCEPT !.frames = @ + 1]
    ELSE stopPlayback(v)

\* the setInterval callback of startPlayback
intervalCallback(v) ==
    IF v.currentCycle < v.len - 1 THEN goToNext(v) ELSE stopPlayback(v)

startPlayback(v) ==
    IF v.playSpeed = 0
    THEN [v EXCEPT !.isPlaying = TRUE, !.frames = @ + 1]
    ELSE [v EXCEPT !.isPlaying = TRUE, !.playInterval = TRUE, !.timers = @ + 1]

togglePlayback(v) == IF v.isPlaying THEN stopPlayback(v) ELSE startPlayback(v)

\* the .then(data => ...) of loadTrace for a trace of n entries
loadTrace(v, n) ==
    [v EXCEPT !.len = n, !.currentCycle = 0, !.shown = TRUE,
              !.sliderMax = IF n - 1 > 0 THEN n - 1 ELSE 0,
              !.fetches = @ - 1]

Others == <<impl, source, ctx, ret, first, calls, tool, cpu, enc>>

\* a click on a button of the trace list starts a fetch
ClickTrace ==
    /\ ~viewer.shown
    /\ viewer.fetches < MaxFetch
    /\ viewer' = [viewer EXCEPT !.fetches = @ + 1]
    /\ UNCHANGED Others

\* a fetch resolves with a trace of any length
LoadTrace ==
    /\ viewer.fetches > 0
    /\ \E n \in 0..MaxTrace : viewer' = loadTrace(viewer, n)
    /\ UNCHANGED Others

ClickBack ==
    /\ viewer.shown
    /\ viewer' = [stopPlayback(viewer) EXCEPT !.shown = FALSE]
    /\ UNCHANGED Others

\* the range input hands over a value between its min 0 and its max
SliderInput ==
    /\ viewer.shown
    /\ \E cycle \in 0..viewer.sliderMax : viewer' = [viewer EXCEPT !.currentCycle = cycle]
    /\ UNCHANGED Others

\* first-btn, reset-btn and the Home key
ClickFirst ==
    /\ viewer.shown
    /\ viewer' = goToFirst(stopPlayback(viewer))
    /\ UNCHANGED Others

ClickPrevious ==
    /\ viewer.shown
    /\ viewer' = goToPrevious(stopPlayback(viewer))
    /\ UNCHANGED Others

ClickNext ==
    /\ viewer.shown
    /\ viewer' = goToNext(stopPlayback(viewer))
    /\ UNCHANGED Others

ClickLast ==
    /\ viewer.shown
    /\ viewer' = goToLast(stopPlayback(viewer))
    /\ UNCHANGED Others

\* play-pause-btn and the space key
TogglePlayback ==
    /\ viewer.shown
    /\ togglePlayback(viewer).frames <= MaxFrames
    /\ viewer' = togglePlayback(viewer)
    /\ UNCHANGED Others

\* the change handler of speed-select
SpeedChange ==
    /\ viewer.shown
    /\ \E speed \in PlaySpeeds \ {viewer.playSpeed} :
         LET v1 == [viewer EXCEPT !.playSpeed = speed]
             v2 == IF v1.isPlaying THEN startPlayback(stopPlayback(v1)) ELSE v1
         IN v2.frames <= MaxFrames /\ viewer' = v2
    /\ UNCHANGED Others

\* the browser runs one pending animation-frame callback
AnimationFrame ==
    /\ viewer.frames > 0
    /\ viewer' = runMaxSpeed([viewer EXCEPT !.frames = @ - 1])
    /\ UNCHANGED Others

\* a live interval timer fires
IntervalTick ==
    /\ viewer.timers > 0
    /\ viewer' = intervalCallback(viewer)
    /\ UNCHANGED Others

InitViewer ==
    /\ impl = "cpp"
    /\ source = <<>>
    /\ ctx = [current_addr_words |-> 0, symbols |-> <<>>, line_addr |-> <<>>]
    /\ ret = [n |-> 0] @@ Outcome("", "none", <<>>, <<>>, <<>>, <<>>)
    /\ first = NoOutcome
    /\ calls = 0
    /\ tool = [exit |-> -1, written |-> FALSE, out |-> <<>>]
    /\ cpu = CpuOff
    /\ enc = [opcode |-> 0, mode |-> 0, rd |-> 0, rs |-> 0, done |-> FALSE,
              asm_word |-> 0, test_word |-> 0]
    /\ viewer = ViewerOff

NextViewer ==
    \/ ClickTrace \/ LoadTrace \/ ClickBack \/ SliderInput
    \/ ClickFirst \/ ClickPrevious \/ ClickNext \/ ClickLast
    \/ TogglePlayback \/ SpeedChange \/ AnimationFrame \/ IntervalTick

SpecViewer == InitViewer /\ [][NextViewer]_vars

----------------------------------------------------------------------------
(* Vocabulary of the properties *)

Called   == ret.n > 0
Accepted == ret.n > 0 /\ ret.err = ""

DuplicateLabelErrors == {"Duplicate label"}
UnknownLabelErrors   == {"Unknown label", "Unknown label in jump"}
UnsupportedErrors    == {"Unknown instruction", "Unsupported instruction",
                         "Instruction not yet supported in assembler"}

\* the linked-in lexer and the two passes
Tokenize(line) == IF impl = "cpp" THEN tokenize_line(line) ELSE tokenize_line2(trim(line))
ReadLines(src) == IF impl = "cpp" THEN read_lines(src, 1, <<>>) ELSE read_lines2(src, 1, <<>>)
Pass2Run(ls)   == IF impl = "cpp" THEN pass2(ls, ret.ctx, <<>>)
                  ELSE assemble2_pass2(ls, ret.ctx, 1, <<>>)

\* the label a source line defines and the mnemonic it carries, read off
\* the tokens that precede any lexical error; <<>> when there is none
SrcLabel(line) ==
    LET t == Tokenize(line).tokens
    IN IF Len(t) >= 2 /\ t[1].type = "Identifier" /\ t[2].type = "Colon"
       THEN t[1].text ELSE <<>>
SrcOp(line) ==
    LET t == Tokenize(line).tokens
        k == IF SrcLabel(line) # <<>> THEN 3 ELSE 1
    IN IF Len(t) >= k /\ t[k].type = "Identifier" THEN t[k].text ELSE <<>>

InTable(op) == \E k \in DOMAIN INSTR_TABLE : iequals(op, INSTR_TABLE[k].name)

IsJumpOp(op) == iequals(op, JMP_s) \/ iequals(op, JZ_s)

\* a parsed line that is a JMP or JZ with a label operand
IsLabelJump(pl) ==
    /\ pl.kind = "Instruction"
    /\ IsJumpOp(pl.op)
    /\ Len(pl.operands) = 1
    /\ pl.operands[1].kind = "LabelRef"

Defines(ls, name) == \E j \in DOMAIN ls : ls[j].label = name
LabelLine(ls, name) ==
    CHOOSE j \in DOMAIN ls : ls[j].label = name /\ \A k \in 1..(j-1) : ls[k].label # name

\* index in the output of the first word emitted at or after line i
WordsBefore(i) == Len(Pass2Run(SubSeq(ret.lines, 1, i - 1)).words)

\* the address Pass 1 assigned to line i
LineAddr(i) == ret.ctx.line_addr[i]

----------------------------------------------------------------------------
(* C1 *)

\* C1: every assemble(source) call, whatever calls were made before it and
\* between, ends as the first one did: the same error, or the same bytes
C1_SameOutcomeEveryCall ==
    (first.set /\ Called) => (ret.err = first.err /\ ret.bytes = first.bytes)

\* source was assembled at least twice with another call in the sequence,
\* and it defines labels
C1_Witness ==
    /\ ret.n >= 2
    /\ calls > ret.n
    /\ ret.err = ""
    /\ ret.ctx.symbols # <<>>

----------------------------------------------------------------------------
(* C2 *)

\* C2: in every accepted program, for every JMP or JZ with a label operand,
\* the offset word read as a signed 16-bit integer plus (jump address + 2)
\* is exactly the label's address
C2_OffsetExact ==
    Accepted =>
      \A i \in DOMAIN ret.lines :
        IsLabelJump(ret.lines[i]) =>
          LET w      == ret.words[WordsBefore(i) + 2]
              signed == IF w >= 32768 THEN w - 65536 ELSE w
          IN signed + (LineAddr(i) + 2)
               = LineAddr(LabelLine(ret.lines, ret.lines[i].operands[1].text))

----------------------------------------------------------------------------
(* C3 *)

\* C3: a jump to a label is accepted and resolves to the address Pass 1
\* gave the label wherever the label is defined: in an accepted program the
\* offset word added to (jump address + 2) gives the label's address modulo
\* 2^16, and an unknown-label error means some referenced label is defined
\* on no line at all
C3_ForwardReference ==
    /\ Accepted =>
         \A i \in DOMAIN ret.lines :
           IsLabelJump(ret.lines[i]) =>
             /\ Defines(ret.lines, ret.lines[i].operands[1].text)
             /\ U16(LineAddr(i) + 2 + ret.words[WordsBefore(i) + 2])
                  = LineAddr(LabelLine(ret.lines, ret.lines[i].operands[1].text))
    /\ (Called /\ ret.err \in UnknownLabelErrors) =>
         \E i \in DOMAIN ret.lines :
           /\ IsLabelJump(ret.lines[i])
           /\ ~Defines(ret.lines, ret.lines[i].operands[1].text)

\* an accepted program with a jump to a label defined on a later line
C3_Witness ==
    /\ Accepted
    /\ \E i \in DOMAIN ret.lines :
         /\ IsLabelJump(ret.lines[i])
         /\ Defines(ret.lines, ret.lines[i].operands[1].text)
         /\ LabelLine(ret.lines, ret.lines[i].operands[1].text) > i

----------------------------------------------------------------------------
(* C4 *)

\* C4: after the CPU retires a taken JMP or JZ that is the jump of a source
\* line with label operand L, PC is the load address of the first word
\* emitted for the line labelled L
C4_JumpLandsOnLabel ==
    (Accepted /\ cpu.status # "off" /\ cpu.cycles > 0 /\ cpu.lastTaken) =>
      \A i \in DOMAIN ret.lines :
        (IsLabelJump(ret.lines[i]) /\ cpu.lastPC = CODE_BASE + 2 * WordsBefore(i)) =>
          cpu.PC = CODE_BASE
                     + 2 * WordsBefore(LabelLine(ret.lines, ret.lines[i].operands[1].text))

----------------------------------------------------------------------------
(* C5 *)

\* the same label name is defined on lines i < j of the source text
SameLabel(i, j) ==
    /\ i < j
    /\ SrcLabel(source[i]) # <<>>
    /\ SrcLabel(source[i]) = SrcLabel(source[j])
DuplicateDefined == \E i, j \in DOMAIN source : SameLabel(i, j)
SecondDefinition ==
    CHOOSE j \in DOMAIN source :
      /\ \E i \in DOMAIN source : SameLabel(i, j)
      /\ \A k \in 1..(j-1) : ~\E i \in DOMAIN source : SameLabel(i, k)
OrgBefore(j) == \E k \in 1..(j-1) : iequals(SrcOp(source[k]), ORG_s)

\* C5 as stated: a program that defines a label twice always fails with the
\* duplicate-label error and yields no bytes
C5_AlwaysDuplicateError ==
    (Called /\ DuplicateDefined) =>
      (ret.err \in DuplicateLabelErrors /\ ret.bytes = <<>>)

\* C5 amended: a program that defines a label twice always fails and yields
\* no bytes; the error is the duplicate-label error whenever every line
\* lexes and parses and no .org directive precedes the second definition
C5_DuplicateRejected ==
    (Called /\ DuplicateDefined) =>
      /\ ret.err # ""
      /\ ret.bytes = <<>>
      /\ (ReadLines(source).err = "" /\ ~OrgBefore(SecondDefinition))
           => ret.err \in DuplicateLabelErrors

\* the two definitions are separated by another line and the call failed
\* with the duplicate-label error
C5_Witness ==
    /\ Called
    /\ ret.err \in DuplicateLabelErrors
    /\ \E i, j \in DOMAIN source : SameLabel(i, j) /\ j > i + 1

----------------------------------------------------------------------------
(* C6 *)

\* C6: when an assemble call ends in an error, whatever the stage, the
\* caller gets no bytes, and the tool exits 1 without writing the output file
C6_ErrorsAreFatal ==
    (Called /\ ret.err # "") =>
      /\ ret.bytes = <<>>
      /\ tool.exit = 1
      /\ ~tool.written
      /\ tool.out = <<>>

\* Pass 2 failed after it had already encoded words for earlier lines
C6_Witness ==
    /\ Called
    /\ ret.stage = "pass2"
    /\ ret.err # ""
    /\ ret.words # <<>>
    /\ tool.exit = 1

----------------------------------------------------------------------------
(* C7 *)

\* a source line whose mnemonic is not in the instruction table
UnknownMnemonic(line) ==
    /\ SrcOp(line) # <<>>
    /\ SrcOp(line)[1] # "."
    /\ ~InTable(SrcOp(line))
HasUnknownMnemonic == \E i \in DOMAIN source : UnknownMnemonic(source[i])

UnknownParsed(pl) == pl.kind = "Instruction" /\ ~InTable(pl.op)
FirstUnknownParsed ==
    CHOOSE i \in DOMAIN ret.lines :
      UnknownParsed(ret.lines[i]) /\ \A k \in 1..(i-1) : ~UnknownParsed(ret.lines[k])

\* C7 as stated: a program with an unknown mnemonic is always rejected with
\* the unsupported-instruction error
C7_AlwaysUnsupportedError ==
    (Called /\ HasUnknownMnemonic) => ret.err \in UnsupportedErrors

\* C7 amended: a program with an unknown mnemonic is always rejected and
\* yields no bytes; the error is the unsupported-instruction error unless
\* an earlier error is reported first, that is, whenever lexing, parsing
\* and Pass 1 succeed and Pass 2 fails on no line before the unknown one
C7_UnknownRejected ==
    (Called /\ HasUnknownMnemonic) =>
      /\ ret.err # ""
      /\ ret.bytes = <<>>
      /\ ~tool.written
      /\ (/\ ReadLines(source).err = ""
          /\ ret.stage = "pass2"
          /\ Pass2Run(SubSeq(ret.lines, 1, FirstUnknownParsed - 1)).err = "")
           => ret.err \in UnsupportedErrors

\* Pass 1 skipped the unknown mnemonic as zero-width, so the label on the
\* next line got the address of the unknown line, and Pass 2 rejected it
C7_Witness ==
    /\ Called
    /\ ret.err \in UnsupportedErrors
    /\ \E i \in DOMAIN ret.lines :
         /\ UnknownParsed(ret.lines[i])
         /\ i < Len(ret.lines)
         /\ ret.lines[i + 1].label # <<>>
         /\ LineAddr(i + 1) = LineAddr(i)

----------------------------------------------------------------------------
(* C8 *)

\* C8: the word either encoder builds from opcode, mode, rd, rs has its two
\* low bits zero, and bits [15:11], [10:8], [7:5], [4:2] are the fields
C8_WordRoundTrip ==
    enc.done =>
      \A w \in {enc.asm_word, enc.test_word} :
        /\ w \in 0..65535
        /\ w % 4 = 0
        /\ (w \div 2048) % 32 = enc.opcode
        /\ (w \div 256) % 8 = enc.mode
        /\ (w \div 32) % 8 = enc.rd
        /\ (w \div 4) % 8 = enc.rs

\* all four fields at their maximum have been encoded
C8_Witness ==
    /\ enc.done
    /\ enc.opcode = 31 /\ enc.mode = 7 /\ enc.rd = 7 /\ enc.rs = 7
    /\ enc.asm_word = 65532

----------------------------------------------------------------------------
(* C9 *)

\* C9: the bytes of an accepted program are two per emitted word, in
\* emission order, low byte first: bytes 2k and 2k+1 (counting from 0)
\* compose little-endian to the k-th word
C9_BytePacking ==
    Accepted =>
      /\ Len(ret.bytes) = 2 * Len(ret.words)
      /\ \A k \in DOMAIN ret.words :
           /\ ret.bytes[2 * k - 1] \in 0..255
           /\ ret.bytes[2 * k] \in 0..255
           /\ ret.bytes[2 * k - 1] + 256 * ret.bytes[2 * k] = ret.words[k]

\* an accepted program with several words, one of them with different low
\* and high bytes
C9_Witness ==
    /\ Accepted
    /\ Len(ret.words) >= 3
    /\ \E k \in DOMAIN ret.words : ret.bytes[2 * k - 1] # ret.bytes[2 * k]

----------------------------------------------------------------------------
(* C10 *)

AddImmLines == {Ln_ADD_10, Ln_ADD_5, Ln_add_FFFF}
ImmOf(line) == IF line = Ln_ADD_10 THEN 10 ELSE IF line = Ln_ADD_5 THEN 5 ELSE 65535

\* n lines ADD R0, #imm followed by HALT
IsAddHalt(src) ==
    /\ Len(src) >= 1
    /\ src[Len(src)] = Ln_HALT
    /\ \A i \in 1..(Len(src) - 1) : src[i] \in AddImmLines

RECURSIVE SumImm(_, _)
SumImm(src, i) == IF i = 0 THEN 0 ELSE (SumImm(src, i - 1) + ImmOf(src[i])) % 65536

\* the program bytes the way the emulator test builds them
RECURSIVE HandEncoded(_, _)
HandEncoded(src, i) ==
    IF i = 0 THEN <<>>
    ELSE IF src[i] = Ln_HALT
    THEN add_word_to_program(HandEncoded(src, i - 1), make_instruction(1, 0, 0, 0))
    ELSE add_word_to_program(
             add_word_to_program(HandEncoded(src, i - 1), make_instruction(5, 1, 0, 0)),
             ImmOf(src[i]))

\* C10: n lines ADD R0, #imm followed by HALT assemble to the bytes of the
\* hand encoding, n + 1 instructions; loaded at 0x8000 with registers zero
\* the run halts after exactly n + 1 retired instructions with R0 the sum
\* of the immediates modulo 2^16
C10_AddHaltScenario ==
    IsAddHalt(source) =>
      /\ Called =>
           /\ ret.err = ""
           /\ ret.bytes = HandEncoded(source, Len(source))
           /\ Len(ret.words) = 2 * (Len(source) - 1) + 1
      /\ cpu.status \in {"off", "running", "halted"}
      /\ cpu.status = "running" => cpu.cycles < Len(source)
      /\ cpu.status = "halted" =>
           /\ cpu.cycles = Len(source)
           /\ cpu.R[0] = SumImm(source, Len(source) - 1)

\* ADD R0, #10; ADD R0, #5; HALT has halted after 3 instructions with R0 = 15
C10_Witness ==
    /\ source = <<Ln_ADD_10, Ln_ADD_5, Ln_HALT>>
    /\ cpu.status = "halted"
    /\ cpu.cycles = 3
    /\ cpu.R[0] = 15

----------------------------------------------------------------------------
(* Vocabulary of the properties of a run: the trace holds one entry per    *)
(* retired instruction, trace[k] for cycle k - 1                           *)

Retired == DOMAIN cpu.trace

OpAt(k) == cpu.trace[k].instr.opcode
RdAt(k) == cpu.trace[k].instr.rd

\* SP and the registers when the instruction of entry k was fetched
SPBefore(k)   == IF k = 1 THEN SP_INIT ELSE cpu.trace[k - 1].sp
RegsBefore(k) == IF k = 1 THEN [r \in 0..7 |-> 0] ELSE cpu.trace[k - 1].regs

\* PC when the instruction of entry k had retired
PCAfter(k) == IF k = Len(cpu.trace) THEN cpu.PC ELSE cpu.trace[k + 1].pc

\* the 16-bit value entry k stored at addr, low byte first
StoredAt(k, addr, w) ==
    /\ Len(cpu.trace[k].mem_writes) = 2
    /\ cpu.trace[k].mem_writes[1].addr = addr
    /\ cpu.trace[k].mem_writes[1].new = w % 256
    /\ cpu.trace[k].mem_writes[2].addr = U16(addr + 1)
    /\ cpu.trace[k].mem_writes[2].new = w \div 256

Running(words) == tool.out = program_of(<<>>, words) /\ cpu.status # "off"

----------------------------------------------------------------------------
(* C11 *)

\* C11: PUSH decrements SP by exactly 2 and stores the register at the new
\* SP; POP loads the word at SP and then increments SP by exactly 2; PUSH Rx
\* immediately followed by POP Ry leaves SP as before the PUSH and Ry equal
\* to Rx's value before the PUSH; two values pushed in sequence come back
\* in reverse order
C11_StackDiscipline ==
    \A k \in Retired :
      /\ OpAt(k) = OP_PUSH =>
           /\ cpu.trace[k].sp = U16(SPBefore(k) - 2)
           /\ StoredAt(k, cpu.trace[k].sp, RegsBefore(k)[RdAt(k)])
      /\ OpAt(k) = OP_POP =>
           /\ cpu.trace[k].sp = U16(SPBefore(k) + 2)
           /\ cpu.trace[k].mem_writes = <<>>
      /\ (OpAt(k) = OP_PUSH /\ k + 1 \in Retired /\ OpAt(k + 1) = OP_POP) =>
           /\ cpu.trace[k + 1].sp = SPBefore(k)
           /\ cpu.trace[k + 1].regs[RdAt(k + 1)] = RegsBefore(k)[RdAt(k)]
      /\ ( /\ k + 3 \in Retired
           /\ OpAt(k) = OP_PUSH /\ OpAt(k + 1) = OP_PUSH
           /\ OpAt(k + 2) = OP_POP /\ OpAt(k + 3) = OP_POP
           /\ RdAt(k + 2) # RdAt(k + 3) ) =>
           /\ cpu.trace[k + 3].regs[RdAt(k + 2)] = RegsBefore(k + 1)[RdAt(k + 1)]
           /\ cpu.trace[k + 3].regs[RdAt(k + 3)] = RegsBefore(k)[RdAt(k)]
           /\ cpu.trace[k + 3].sp = SPBefore(k)

\* 0xAAAA and 0 were pushed and came back in reverse order, SP is 0x7FFF again
C11_Witness ==
    /\ Running(P_PushPop)
    /\ cpu.cycles = 5
    /\ cpu.R[3] = 43690 /\ cpu.R[2] = 0 /\ cpu.R[0] = 43690
    /\ cpu.SP = SP_INIT

----------------------------------------------------------------------------
(* C12 *)

\* the RET of entry j runs with the stack balanced against the CALL of
\* entry i: SP was never above its value after the CALL, and is at it again
Balanced(i, j) ==
    /\ i < j
    /\ OpAt(i) = OP_CALL /\ cpu.trace[i].instr.mode = 5
    /\ OpAt(j) = OP_RET
    /\ SPBefore(j) = cpu.trace[i].sp
    /\ \A m \in (i + 1)..(j - 1) : cpu.trace[m].sp <= cpu.trace[i].sp

\* C12: CALL pushes the address of the instruction after the two-word CALL
\* and jumps to the target; a RET that runs with the stack balanced returns
\* to the instruction immediately following the CALL with SP as before the
\* CALL, for nested and recursive calls too
C12_CallRetRoundTrip ==
    /\ \A i \in Retired :
         (OpAt(i) = OP_CALL /\ cpu.trace[i].instr.mode = 5) =>
           /\ cpu.trace[i].sp = U16(SPBefore(i) - 2)
           /\ StoredAt(i, cpu.trace[i].sp, U16(cpu.trace[i].pc + 4))
           /\ PCAfter(i) = U16(cpu.trace[i].pc + 4
                               + sign_extend(cpu.trace[i].instr.extra))
    /\ \A i \in Retired : \A j \in Retired :
         Balanced(i, j) =>
           /\ PCAfter(j) = U16(cpu.trace[i].pc + 4)
           /\ cpu.trace[j].sp = SPBefore(i)

\* the nested calls have both returned and the program has halted
C12_Witness ==
    /\ Running(P_Nested)
    /\ cpu.status = "halted"
    /\ Balanced(1, 4) /\ Balanced(2, 3)
    /\ cpu.trace[5].pc = CODE_BASE + 4
    /\ cpu.SP = SP_INIT

----------------------------------------------------------------------------
(* C13 *)

\* C13: in every state of a run SP lies in the stack segment 0x1000..0x7FFF
C13_SPInStackSegment ==
    cpu.status # "off" => (cpu.SP >= 4096 /\ cpu.SP <= 32767)

----------------------------------------------------------------------------
(* C14 *)

FlagZ(k) == (cpu.trace[k].flags \div 8) % 2
FlagN(k) == (cpu.trace[k].flags \div 4) % 2
FlagC(k) == (cpu.trace[k].flags \div 2) % 2
FlagV(k) == cpu.trace[k].flags % 2

\* the operands and the result of the ADD of entry k
AddA(k) == RegsBefore(k)[RdAt(k)]
AddB(k) == IF cpu.trace[k].instr.mode = 1 THEN cpu.trace[k].instr.extra
           ELSE RegsBefore(k)[cpu.trace[k].instr.rs]
AddRes(k) == cpu.trace[k].regs[RdAt(k)]

Bit15(x) == (x \div 32768) % 2

\* C14: after ADD, rd holds the sum modulo 2^16; Z is set exactly when the
\* result is zero, N is bit 15 of the result, C is set exactly when the
\* unsigned sum exceeds 0xFFFF, V exactly when the operands have the same
\* sign bit and the result has the other one
C14_AddFlags ==
    \A k \in Retired :
      (OpAt(k) = OP_ADD /\ cpu.trace[k].instr.mode \in {0, 1}) =>
        /\ AddRes(k) = (AddA(k) + AddB(k)) % 65536
        /\ (FlagZ(k) = 1) <=> (AddRes(k) = 0)
        /\ FlagN(k) = Bit15(AddRes(k))
        /\ (FlagC(k) = 1) <=> (AddA(k) + AddB(k) > 65535)
        /\ (FlagV(k) = 1) <=> ( /\ Bit15(AddA(k)) = Bit15(AddB(k))
                                /\ Bit15(AddRes(k)) # Bit15(AddA(k)) )
        /\ k = Len(cpu.trace) =>
             /\ cpu.Z = FlagZ(k) /\ cpu.N = FlagN(k)
             /\ cpu.C = FlagC(k) /\ cpu.V = FlagV(k)

\* 0x8000 + 0x8000 in register mode: result zero, Z, C and V set, N clear
C14_Witness ==
    /\ Running(I_ADDI(1, 32768) \o I_ADDI(0, 32768) \o I_ADD(0, 1) \o I_HALT)
    /\ cpu.cycles = 3
    /\ cpu.R[0] = 0
    /\ cpu.Z = 1 /\ cpu.N = 0 /\ cpu.C = 1 /\ cpu.V = 1

----------------------------------------------------------------------------
(* C15 *)

Terminal == {"halted", "exhausted"}

LoopsForever == {program_of(<<>>, P_AddJmp), program_of(<<>>, P_AddJmpWords)}

\* C15: every run of the execute loop reaches a terminal status and stays
\* there; the status is halted exactly when a HALT has retired, exhausted
\* exactly when the maximum-cycle guard stopped the run, which never runs
\* past the guard; add_jmp.asm, which loops forever, ends as exhausted
C15_RunTerminates ==
    /\ <>[](cpu.status \in Terminal)
    /\ [](cpu.status = "halted" => cpu.lastOp = OP_HALT)
    /\ [](cpu.status = "exhausted" =>
            (cpu.lastOp # OP_HALT /\ cpu.cycles = MaxCycles))
    /\ [](cpu.status = "running" => cpu.cycles < MaxCycles)
    /\ [](tool.out \in LoopsForever => <>[](cpu.status = "exhausted"))

\* add_jmp.asm was stopped by the guard in the middle of its loop
C15_Witness ==
    /\ tool.out = program_of(<<>>, P_AddJmp)
    /\ cpu.status = "exhausted"
    /\ cpu.cycles = MaxCycles
    /\ cpu.lastOp \in {OP_ADD, OP_JMP}

----------------------------------------------------------------------------
(* C16 *)

LastEntry == cpu'.trace[Len(cpu'.trace)]

\* C16: a step appends exactly one entry to the trace, when it has
\* completed: the entries already there are unchanged, the new entry has
\* the next cycle index, the PC the instruction was fetched from and the
\* state the step ended in; after n steps the trace holds n entries with
\* cycle indices 0..n-1; nothing else changes the trace
C16_TraceAppendOnly ==
    [][ /\ cpu'.cycles = cpu.cycles + 1 =>
            /\ cpu'.trace = Append(cpu.trace, LastEntry)
            /\ LastEntry.cycle = cpu.cycles
            /\ LastEntry.pc = cpu.PC
            /\ LastEntry.regs = cpu'.R
            /\ LastEntry.sp = cpu'.SP
        /\ cpu'.cycles # cpu.cycles + 1 => cpu'.trace = cpu.trace
        /\ Len(cpu'.trace) = cpu'.cycles
        /\ \A k \in DOMAIN cpu'.trace : cpu'.trace[k].cycle = k - 1
      ]_vars

\* three instructions have retired, the third one fetched behind two
\* two-word instructions
C16_Witness ==
    /\ Running(P_EmulatorTest)
    /\ Len(cpu.trace) = 3
    /\ cpu.trace[3].cycle = 2
    /\ cpu.trace[3].pc = CODE_BASE + 8
    /\ cpu.PC = CODE_BASE + 10

----------------------------------------------------------------------------
(* C17 *)

\* the bytes the viewer shows after the last retired cycle
ViewerMemory == getAllMemoryWrites(cpu.trace, Len(cpu.trace) - 1)

WritesAt(k, addr) ==
    {i \in DOMAIN cpu.trace[k].mem_writes : cpu.trace[k].mem_writes[i].addr = addr}

\* the addresses written during the cycles retired so far
WrittenSoFar ==
    UNION { {cpu.trace[k].mem_writes[i].addr : i \in DOMAIN cpu.trace[k].mem_writes} :
            k \in Retired }

\* C17: after every cycle, folding the memory-write lists of the trace up
\* to that cycle, last write winning, gives for every address written so
\* far exactly the byte the CPU memory holds at that address
C17_TraceCompleteness ==
    cpu.status # "off" =>
      /\ DOMAIN ViewerMemory = WrittenSoFar
      /\ \A addr \in DOMAIN ViewerMemory : ViewerMemory[addr] = read8(cpu, addr)

\* the byte at 0x7FFD was written twice with different values and the fold
\* holds the later one
C17_Witness ==
    /\ cpu.cycles = 3
    /\ WritesAt(1, 32765) # {} /\ WritesAt(3, 32765) # {}
    /\ cpu.trace[1].mem_writes[1].new # cpu.trace[3].mem_writes[1].new
    /\ ViewerMemory[32765] = cpu.trace[3].mem_writes[1].new

----------------------------------------------------------------------------
(* C18 *)

JumpFormLines == {Ln_JNZ_done, Ln_CALL_done}

Occurrences(line) == Cardinality({i \in DOMAIN source : source[i] = line})

\* a program of the listed instruction forms in which the label done is
\* defined at most once, and once when a jump refers to it
WellFormedForms ==
    /\ \A i \in DOMAIN source : source[i] \in FormLines
    /\ Occurrences(Ln_done_HALT) <= 1
    /\ (\E i \in DOMAIN source : source[i] \in JumpFormLines)
         => Occurrences(Ln_done_HALT) = 1

FormWords(line) == IF line \in JumpFormLines THEN 2 ELSE 1

RECURSIVE FormsLength(_)
FormsLength(i) == IF i = 0 THEN 0 ELSE FormsLength(i - 1) + FormWords(source[i])

\* C18: a program of the listed mnemonic forms (RET, SUB, JNZ, CALL, PUSH,
\* POP, with HALT) is accepted: no error, one word per RET, SUB, PUSH, POP
\* and HALT line and two per jump line, and the output file is written
C18_ListedFormsAccepted ==
    (Called /\ WellFormedForms) =>
      /\ ret.err = ""
      /\ Len(ret.words) = FormsLength(Len(source))
      /\ tool.written

----------------------------------------------------------------------------
(* C19 *)

IsOrgLine(line) == iequals(SrcOp(line), ORG_s)

\* C19: a program in which line i is `.org 0` is not rejected at that
\* line: reading the lines (lexing and parsing) succeeds,
\* the line emits no word, and the line after it gets address 0
C19_OrgAccepted ==
    (Called /\ \E i \in DOMAIN source : source[i] = Ln_org_0) =>
      /\ ret.stage # "read"
      /\ \A i \in DOMAIN source :
           (source[i] = Ln_org_0 /\ i < Len(source) /\ ret.stage \in {"pass2", "done"})
             => LineAddr(i + 1) = 0
      /\ Accepted =>
           \A i \in DOMAIN source :
             source[i] = Ln_org_0 => WordsBefore(i + 1) = WordsBefore(i)

----------------------------------------------------------------------------
(* C20 *)

RegDigit == [c \in {"0","1","2","3","4","5","6","7"} |-> IndexOf(DigitSeq, c) - 1]

\* the registers a line `ADD Rd, Rs` names
LineRd(line) == RegDigit[line[6]]
LineRs(line) == RegDigit[line[10]]

IsRegAdd(line) == line \in RegLines \ {Ln_HALT}

\* C20: a program of lines ADD Rd, Rs over R0..R7 in either case is
\* accepted, and every such line is one word with opcode ADD, register
\* mode, rd and rs the indices of the registers named
C20_AllRegistersEncoded ==
    (Called /\ \E i \in DOMAIN source : IsRegAdd(source[i])) =>
      /\ ret.err = ""
      /\ Len(ret.words) = Len(source)
      /\ \A i \in DOMAIN source :
           IsRegAdd(source[i]) =>
             /\ (ret.words[i] \div 2048) % 32 = OP_ADD
             /\ (ret.words[i] \div 256) % 8 = 0
             /\ (ret.words[i] \div 32) % 8 = LineRd(source[i])
             /\ (ret.words[i] \div 4) % 8 = LineRs(source[i])

----------------------------------------------------------------------------
(* C21 *)

\* the value of a decimal numeral
RECURSIVE DecValue(_)
DecValue(text) ==
    IF text = <<>> THEN 0
    ELSE 10 * DecValue(SubSeq(text, 1, Len(text) - 1))
         + (IndexOf(DigitSeq, text[Len(text)]) - 1)

\* the index a register name R<d> or r<d> stands for
RegIndex(text) == RegDigit[text[2]]

IsAdd(pl) == pl.kind = "Instruction" /\ iequals(pl.op, ADD_s)

AddRegShape(pl) ==
    Len(pl.operands) = 2 /\ pl.operands[1].kind = "Reg" /\ pl.operands[2].kind = "Reg"
AddImmShape(pl) ==
    Len(pl.operands) = 2 /\ pl.operands[1].kind = "Reg" /\ pl.operands[2].kind = "Imm"

\* the words Pass 2 emits for line i
WordsOf(i) == SubSeq(ret.words, WordsBefore(i) + 1, WordsBefore(i + 1))

\* C21: ADD Rd, Rs emits exactly one word with mode 0 and rd, rs set;
\* ADD Rd, #imm emits exactly two words, the first with mode 1, rd set and
\* rs 0, the second equal to imm; a program with an ADD of any other
\* operand shape is rejected and yields no bytes
C21_AddOperandShapes ==
    (Called /\ ret.stage \in {"pass1", "pass2", "done"}) =>
      /\ (\E i \in DOMAIN ret.lines :
            IsAdd(ret.lines[i]) /\ ~AddRegShape(ret.lines[i]) /\ ~AddImmShape(ret.lines[i]))
           => (ret.err # "" /\ ret.bytes = <<>> /\ ~tool.written)
      /\ Accepted =>
           \A i \in DOMAIN ret.lines :
             /\ (IsAdd(ret.lines[i]) /\ AddRegShape(ret.lines[i])) =>
                  WordsOf(i) = << 2048 * OP_ADD
                                  + 32 * RegIndex(ret.lines[i].operands[1].text)
                                  + 4 * RegIndex(ret.lines[i].operands[2].text) >>
             /\ (IsAdd(ret.lines[i]) /\ AddImmShape(ret.lines[i])) =>
                  WordsOf(i) = << 2048 * OP_ADD + 256 * 1
                                  + 32 * RegIndex(ret.lines[i].operands[1].text),
                                  DecValue(ret.lines[i].operands[2].text) >>

\* both accepted shapes in one program: one word for ADD R1, R2, two for
\* add r2, #513
C21_Witness ==
    /\ Accepted
    /\ source = <<Ln_ADD_R1_R2, Ln_add_r2_513>>
    /\ ret.words = <<10280, 10560, 513>>

----------------------------------------------------------------------------
(* C22 *)

IsWord(pl) == pl.kind = "Directive" /\ iequals(pl.op, WORD_s)

WordLines == {Ln_word_7, Ln_word_done}

HasWordLine == \E i \in DOMAIN source : source[i] \in WordLines

\* a .word line refers to a label that no line defines
WordLabelUndefined ==
    \E i \in DOMAIN ret.lines :
      /\ IsWord(ret.lines[i])
      /\ Len(ret.lines[i].operands) = 1
      /\ ret.lines[i].operands[1].kind = "LabelRef"
      /\ ~Defines(ret.lines, ret.lines[i].operands[1].text)

\* C22: a line `.word <literal-or-label>` is a valid line; in an accepted
\* program it emits exactly one word, the literal or the address of the
\* label wherever the label is defined, and the next line's address is one
\* higher; a program whose .word names a label defined nowhere is rejected
\* and yields no bytes
C22_WordDirective ==
    (Called /\ HasWordLine) =>
      /\ ret.stage # "read"
      /\ WordLabelUndefined => (ret.err # "" /\ ret.bytes = <<>>)
      /\ Accepted =>
           \A i \in DOMAIN ret.lines :
             IsWord(ret.lines[i]) =>
               /\ i < Len(ret.lines) => LineAddr(i + 1) = U16(LineAddr(i) + 1)
               /\ ret.lines[i].operands[1].kind = "RawNumber" =>
                    WordsOf(i) = <<DecValue(ret.lines[i].operands[1].text)>>
               /\ ret.lines[i].operands[1].kind = "LabelRef" =>
                    WordsOf(i) = <<LineAddr(LabelLine(ret.lines,
                                                      ret.lines[i].operands[1].text))>>

----------------------------------------------------------------------------
(* C23 *)

LabelOnly(pl) == pl.label # <<>> /\ pl.op = <<>>

HasLabelOnlyLine == \E i \in DOMAIN source : source[i] = Ln_done_colon

\* the address the symbol table holds for name
SymAddr(name) == lookup_symbol(ret.ctx, name).val

\* C23: a line holding only `name:` is valid: a program is never rejected
\* while its lines are read because of it; once Pass 1 has run the label
\* has the address the counter had at the line, the next line has the same
\* address, so the label of a label-only line followed by an instruction is
\* the address of that instruction, and in an accepted program the line
\* emits no words
C23_LabelOnlyLine ==
    (Called /\ HasLabelOnlyLine) =>
      /\ (\A i \in DOMAIN source : source[i] \notin WordLines) => ret.stage # "read"
      /\ ret.stage \in {"pass2", "done"} =>
           \A i \in DOMAIN ret.lines :
             LabelOnly(ret.lines[i]) =>
               /\ SymAddr(ret.lines[i].label) = LineAddr(i)
               /\ i < Len(ret.lines) =>
                    /\ LineAddr(i + 1) = LineAddr(i)
                    /\ SymAddr(ret.lines[i].label) = LineAddr(i + 1)
               /\ Accepted => WordsOf(i) = <<>>

\* JMP done / done: / ADD R0, #5 was accepted: done is the address of the
\* ADD, two words behind the JMP, and the offset word is 0
C23_Witness ==
    /\ Accepted
    /\ source = <<Ln_JMP_done, Ln_done_colon, Ln_ADD_5>>
    /\ LabelOnly(ret.lines[2])
    /\ SymAddr(ret.lines[2].label) = 32770
    /\ LineAddr(3) = 32770
    /\ ret.words = <<26624 + 1280, 0, 10496, 5>>

----------------------------------------------------------------------------
(* C24 *)

RangeErrors == {"Immediate/address out of range for 16-bit value", "number out of range"}

\* the lines that carry a literal above 0xFFFF, and the lines that carry
\* the literal 0xFFFF or 0x8001
OverRangeLines == {Ln_ADD_65536, Ln_JMP_65536, Ln_word_0x10000, Ln_org_65536}
InRangeLines   == {Ln_add_FFFF, Ln_JMP_0x8001, Ln_word_0XFFFF, Ln_org_0x8001}

HasOverRange == \E i \in DOMAIN source : source[i] \in OverRangeLines

\* C24: a program with an ADD immediate, .word literal, .org literal or
\* numeric jump target above 0xFFFF fails with a range error; a program
\* whose literals are all 0xFFFF or 0x8001 is accepted, the ADD and the
\* .word emit 65535, the .org puts the next line at 32769 and the jump
\* offset is 32769 - (jump address + 2) modulo 2^16
C24_LiteralRange ==
    Called =>
      /\ HasOverRange => ret.err \in RangeErrors
      /\ ~HasOverRange =>
           /\ Accepted
           /\ \A i \in DOMAIN source :
                /\ source[i] = Ln_add_FFFF => WordsOf(i) = <<2048 * OP_ADD + 256, 65535>>
                /\ source[i] = Ln_word_0XFFFF => WordsOf(i) = <<65535>>
                /\ (source[i] = Ln_org_0x8001 /\ i < Len(source)) => LineAddr(i + 1) = 32769
                /\ source[i] = Ln_JMP_0x8001 =>
                     /\ Len(WordsOf(i)) = 2
                     /\ WordsOf(i)[2] = (32769 - (LineAddr(i) + 2)) % 65536

----------------------------------------------------------------------------
(* C25 *)

\* a parsed line that is a JMP or JZ with one label or number operand
IsJump(pl) ==
    /\ pl.kind = "Instruction"
    /\ IsJumpOp(pl.op)
    /\ Len(pl.operands) = 1
    /\ pl.operands[1].kind \in {"LabelRef", "RawNumber"}

\* the target of the jump on line i as Pass 2 resolves it
JumpTargetOf(i) == jump_target(ret.lines[i].operands[1], ret.ctx)

\* the offset of the jump on line i before it is cut to 16 bits
TrueOffset(i) == JumpTargetOf(i).val - (LineAddr(i) + 2)

\* C25: once Pass 1 has placed the lines, a program holding a JMP or JZ whose
\* target resolves and whose offset target - (jump address + 2) lies outside
\* -32768..32767 fails with a range error and returns no bytes
C25_OffsetRangeChecked ==
    (Called /\ ret.stage \in {"pass2", "done"}) =>
      \A i \in DOMAIN ret.lines :
        (/\ IsJump(ret.lines[i])
         /\ JumpTargetOf(i).err = ""
         /\ TrueOffset(i) \notin -32768..32767)
          => (ret.err \in RangeErrors /\ ret.bytes = <<>>)

----------------------------------------------------------------------------
(* C26 *)

\* the amount by which Pass 1 advanced the address counter over line i
Pass1Advance(i) ==
    LET next == IF i < Len(ret.lines) THEN LineAddr(i + 1) ELSE ret.ctx.current_addr_words
    IN (next - LineAddr(i)) % 65536

\* the size the specification gives each kind of line
ListedSize(pl) ==
    IF LabelOnly(pl) THEN 0
    ELSE IF iequals(pl.op, NOP_s) \/ iequals(pl.op, HALT_s) \/ iequals(pl.op, WORD_s) THEN 1
    ELSE IF iequals(pl.op, ADD_s)
    THEN (IF Len(pl.operands) = 2 /\ pl.operands[2].kind = "Imm" THEN 2 ELSE 1)
    ELSE 2

\* C26: in every accepted program, every line other than .org emits in
\* Pass 2 as many words as Pass 1 advanced the address counter for it, and
\* that number is 0 for a label-only line, 1 for NOP, HALT, .word and ADD
\* with a register, 2 for ADD with an immediate and for JMP and JZ
C26_SizingAgrees ==
    Accepted =>
      \A i \in DOMAIN ret.lines :
        ~iequals(ret.lines[i].op, ORG_s) =>
          /\ Pass1Advance(i) = ListedSize(ret.lines[i])
          /\ WordsBefore(i + 1) = WordsBefore(i) + ListedSize(ret.lines[i])

\* a jump, a label-only line and a .word in one accepted program: 2, 0 and
\* 1 words
C26_Witness ==
    /\ Accepted
    /\ source = <<Ln_JMP_done, Ln_done_colon, Ln_word_7>>
    /\ Len(WordsOf(1)) = 2 /\ Pass1Advance(1) = 2
    /\ Len(WordsOf(2)) = 0 /\ Pass1Advance(2) = 0
    /\ Len(WordsOf(3)) = 1 /\ Pass1Advance(3) = 1

----------------------------------------------------------------------------
(* C27 *)

\* line i emits at least one word
Emits(i) == WordsBefore(i + 1) > WordsBefore(i)

\* the address of the first emitting line
Origin ==
    LineAddr(CHOOSE i \in DOMAIN ret.lines : Emits(i) /\ \A j \in 1..(i - 1) : ~Emits(j))

\* C27: in every accepted program that emits a word, the first word of
\* every emitting line stands in the output at the index its Pass 1
\* address minus the origin gives, the origin being the address of the
\* first emitting line
C27_AddressIsPosition ==
    (Accepted /\ ret.words # <<>>) =>
      \A i \in DOMAIN ret.lines :
        Emits(i) => LineAddr(i) = (Origin + WordsBefore(i)) % 65536

----------------------------------------------------------------------------
(* C28 *)

MalformedLines == {Ln_ADD_12ab, Ln_ADD_0x, Ln_ADD_0xZZ}

\* the lexer scans the whole literal of line i as one Number token
OneNumberToken(line) ==
    LET t == Tokenize(line).tokens
    IN Len(t) = 5 /\ t[5].type = "Number" /\ t[5].text = SubSeq(line, 10, Len(line))

\* C28: a program with a Number token that holds characters which are no
\* digits of its base (12ab, 0x, 0xZZ) is rejected
C28_MalformedNumberRejected ==
    (Called /\ \E i \in DOMAIN source :
                 source[i] \in MalformedLines /\ OneNumberToken(source[i]))
      => ret.err # ""

----------------------------------------------------------------------------
(* C29 *)

\* C29: while the viewer shows a loaded trace, currentCycle is an index of
\* the trace, and it is 0 when the trace is empty
C29_CycleInRange ==
    viewer.shown =>
      IF viewer.len = 0 THEN viewer.currentCycle = 0
      ELSE viewer.currentCycle \in 0..(viewer.len - 1)

----------------------------------------------------------------------------
(* C30 *)

\* the callbacks that advance currentCycle when they run: the live interval
\* timers and, while isPlaying holds, the pending animation-frame callbacks
Drivers == viewer.timers + (IF viewer.isPlaying THEN viewer.frames ELSE 0)

\* C30: at most one playback driver is live at a time, and while playback
\* is stopped no interval timer is live and a pending animation-frame
\* callback leaves currentCycle alone
C30_SingleDriver ==
    /\ Drivers <= 1
    /\ ~viewer.isPlaying =>
         /\ viewer.timers = 0
         /\ runMaxSpeed(viewer).currentCycle = viewer.currentCycle

====
